---- MODULE Spec2Model ----
(***************************************************************************)
(* Verification model of the dashboard backend's resource aggregation      *)
(* pipeline: the category aggregations (discovery, config, cluster), the   *)
(* list aggregations over a ResourceChannels bundle, the list builders     *)
(* with their metric promise, and the selector based pod lookups.          *)
(***************************************************************************)
EXTENDS Integers, Sequences, FiniteSets, TLC

\* Go's nil (pointer, error, slice); every modelled value is a record so that
\* values of different shapes can be compared.
Nil == [nil |-> TRUE]

SeqToSet(s) == {s[k] : k \in 1..Len(s)}

VARIABLES
    \* ---- category aggregations: Get{Discovery,Config,Cluster}FromChannels
    agg,        \* which aggregation runs ("none" outside FanSpec)
    wpc,        \* worker goroutine -> position in its func literal
    subRes,     \* worker -> (items, err) its sub-aggregation returned
    errChan,    \* buffered channel errChan: the queued errors
    errLog,     \* every error sent on errChan so far, in send order
    cpc,        \* position of the calling goroutine
    i,          \* loop counter of "for i := 0; i < numErrs; i++"
    got,        \* list pointers received so far while building the result
    ret,        \* what the call returned: [result, err]
    \* ---- list aggregations: Get{Job,CronJob,StatefulSet,DaemonSet}ListFromChannels
    lagg,       \* which list aggregation runs ("none" outside ListSpec)
    dsQuery,    \* the data select query of the request
    fpc,        \* kind -> position of the fetch goroutine of that kind's channel
    fcnt,       \* kind -> completed iterations of the fetch goroutine's send loop
    fetched,    \* kind -> (list, err) the cluster API returned to the fetch
    chList,     \* kind -> content of the buffered channel <Kind>.List
    chErr,      \* kind -> content of the buffered channel <Kind>.Error
    lpc,        \* position of the goroutine running Get<X>ListFromChannels
    lidx,       \* index in the read order of the kind being read
    gotList,    \* kind -> list the caller received (jobs, pods, events, ...)
    gotErr,     \* kind -> error the caller received
    lret,       \* what the call returned: [result, err]
    \* ---- list builders: Create{Job,StatefulSet,DaemonSet}List
    mk,         \* which builder runs ("none" outside CreateSpec)
    mkQuery,    \* pagination part of the dsQuery argument
    metricQuery,\* metric part of the dsQuery argument: "none" or "cpu"
    cells,      \* the primary items the builder is given
    mkpc,       \* position of the goroutine running the builder
    selected,   \* the cells the data select returned
    mlist,      \* the list under construction: Items, TotalItems, CumulativeMetrics
    mtask,      \* position of the asynchronous metric task
    promise,    \* content of the metric promise's single slot
    gm,         \* what metricPromises.GetMetrics() returned: [metrics, err]
    \* ---- pod lookups by selector: getRaw{Job,ReplicationController}Pods, GetServicePods
    ctl,        \* kind of the controller looked up ("none" outside SelSpec)
    ctlNs,      \* namespace argument
    ctlSel,     \* the stored controller's selector
    cluster,    \* the pods the cluster holds
    spc,        \* position of the goroutine running the lookup
    listReqs,   \* number of pod list requests issued to the cluster API
    podChan,    \* content of channels.PodList: (list, err) once fetched
    sret,       \* what the lookup returned: [pods, err]
    \* ---- one call of a function of the selection and correlation pipeline
    fn,         \* the function called ("none" outside CallSpec)
    fnArgs,     \* its arguments
    fnPc,       \* position of the call: "called", "returned" or "panicked"
    fnRet,      \* the value it returned
    \* ---- GetDeploymentDetail
    dNs,        \* the namespace argument of the request
    dSel,       \* the stored deployment's Spec.Selector.MatchLabels
    dCluster,   \* the pods the cluster holds
    dpc,        \* positions: main (the request), rs and pod (the list goroutines)
    dChan,      \* content of channels.ReplicaSetList and channels.PodList
    apiLog,     \* the requests issued to the cluster API so far, in order
    dRawPods,   \* rawPods of GetDeploymentDetail
    dPodList,   \* podList, the value of GetDeploymentPods
    dret,       \* what the call returned: [result, err]
    \* ---- the LRU cache of the heapster client
    cSize,      \* the size given to New
    cLru,       \* c.lru: the entries [key, value], most recently used first
    cLock,      \* c.lock: [writer, readers]
    cTh         \* goroutine -> [pc, op, key, ret] of its call on the cache

fanVars == <<agg, wpc, subRes, errChan, errLog, cpc, i, got, ret>>

listVars == <<lagg, dsQuery, fpc, fcnt, fetched, chList, chErr, lpc, lidx, gotList,
              gotErr, lret>>

mkVars == <<mk, mkQuery, metricQuery, cells, mkpc, selected, mlist, mtask, promise, gm>>

selVars == <<ctl, ctlNs, ctlSel, cluster, spc, listReqs, podChan, sret>>

callVars == <<fn, fnArgs, fnPc, fnRet>>

detVars == <<dNs, dSel, dCluster, dpc, dChan, apiLog, dRawPods, dPodList, dret>>

cacheVars == <<cSize, cLru, cLock, cTh>>

vars == <<fanVars, listVars, mkVars, selVars, callVars, detVars, cacheVars>>

outsideFan == <<listVars, mkVars, selVars, callVars, detVars, cacheVars>>
outsideList == <<fanVars, mkVars, selVars, callVars, detVars, cacheVars>>
outsideCreate == <<fanVars, listVars, selVars, callVars, detVars, cacheVars>>
outsideSel == <<fanVars, listVars, mkVars, callVars, detVars, cacheVars>>
outsideCall == <<fanVars, listVars, mkVars, selVars, detVars, cacheVars>>
outsideDet == <<fanVars, listVars, mkVars, selVars, callVars, cacheVars>>
outsideCache == <<fanVars, listVars, mkVars, selVars, callVars, detVars>>

NoRes == [pending |-> TRUE]
NoRet == [pending |-> TRUE]
Unread == [unread |-> TRUE]

\* The fields of a ResourceChannels bundle the list aggregations use.
AllKinds == {"CronJobList", "JobList", "StatefulSetList", "DaemonSetList",
             "ServiceList", "PodList", "EventList"}

\* No list aggregation is running.
ListIdle ==
    /\ lagg = "none"
    /\ dsQuery = Nil
    /\ fpc = [k \in AllKinds |-> "absent"]
    /\ fcnt = [k \in AllKinds |-> 0]
    /\ fetched = [k \in AllKinds |-> NoRes]
    /\ chList = [k \in AllKinds |-> <<>>]
    /\ chErr = [k \in AllKinds |-> <<>>]
    /\ lpc = "idle"
    /\ lidx = 0
    /\ gotList = [k \in AllKinds |-> Unread]
    /\ gotErr = [k \in AllKinds |-> Unread]
    /\ lret = NoRet

\* No list builder is running.
CreateIdle ==
    /\ mk = "none"
    /\ mkQuery = Nil
    /\ metricQuery = "none"
    /\ cells = <<>>
    /\ mkpc = "idle"
    /\ selected = <<>>
    /\ mlist = Nil
    /\ mtask = "idle"
    /\ promise = <<>>
    /\ gm = NoRes

\* No pod lookup is running.
SelIdle ==
    /\ ctl = "none"
    /\ ctlNs = ""
    /\ ctlSel = Nil
    /\ cluster = {}
    /\ spc = "idle"
    /\ listReqs = 0
    /\ podChan = <<>>
    /\ sret = NoRet

\* No function call of the selection and correlation pipeline is running.
CallIdle ==
    /\ fn = "none"
    /\ fnArgs = Nil
    /\ fnPc = "idle"
    /\ fnRet = NoRet

\* No GetDeploymentDetail request is running.
DetIdle ==
    /\ dNs = ""
    /\ dSel = Nil
    /\ dCluster = {}
    /\ dpc = [main |-> "idle", rs |-> "idle", pod |-> "idle"]
    /\ dChan = [ReplicaSetList |-> <<>>, PodList |-> <<>>]
    /\ apiLog = <<>>
    /\ dRawPods = Unread
    /\ dPodList = Unread
    /\ dret = NoRet

\* No cache has been constructed.
CacheIdle ==
    /\ cSize = 0
    /\ cLru = <<>>
    /\ cLock = [writer |-> "none", readers |-> {}]
    /\ cTh = <<>>

-----------------------------------------------------------------------------
(* Category aggregations                                                    *)

Aggregations == {"discovery", "config", "cluster"}

\* The goroutines each aggregation launches, in launch order.
Workers(a) ==
    CASE a = "discovery" -> <<"service", "ingress">>
      [] a = "config"    -> <<"configMap", "secret", "pvc">>
      [] a = "cluster"   -> <<"namespace", "node", "pv", "role", "storage">>
      [] OTHER           -> <<>>

\* The order in which the result struct literal receives from the value channels.
ReadOrder(a) ==
    CASE a = "discovery" -> <<"service", "ingress">>
      [] a = "config"    -> <<"configMap", "pvc", "secret">>
      [] a = "cluster"   -> <<"namespace", "node", "pv", "role", "storage">>
      [] OTHER           -> <<>>

numErrsOne(a) == 1

\* numErrs: capacity of errChan and number of errors the caller waits for.
numErrs(a) ==
    CASE a = "discovery" -> 2
      [] a = "config"    -> 3
      [] a = "cluster"   -> 4
      [] OTHER           -> 0

WorkerSet(a) == SeqToSet(Workers(a))

AllWorkers == UNION {WorkerSet(a) : a \in Aggregations}

\* A sub-aggregation (GetXListFromChannels) returns either (list, nil) or (nil, err).
SubResults(w) ==
    { [list |-> [items |-> <<w>>], err |-> Nil],
      [list |-> Nil, err |-> [error |-> w]] }

\* No category aggregation is running.
FanIdle ==
    /\ agg = "none"
    /\ wpc = [w \in AllWorkers |-> "absent"]
    /\ subRes = [w \in AllWorkers |-> NoRes]
    /\ errChan = <<>>
    /\ errLog = <<>>
    /\ cpc = "idle"
    /\ i = 0
    /\ got = <<>>
    /\ ret = NoRet

FanInit ==
    /\ agg \in Aggregations
    /\ wpc = [w \in AllWorkers |-> IF w \in WorkerSet(agg) THEN "call" ELSE "absent"]
    /\ subRes = [w \in AllWorkers |-> NoRes]
    /\ errChan = <<>>
    /\ errLog = <<>>
    /\ cpc = "errLoop"
    /\ i = 0
    /\ got = <<>>
    /\ ret = NoRet
    /\ ListIdle
    /\ CreateIdle
    /\ SelIdle
    /\ CallIdle
    /\ DetIdle
    /\ CacheIdle

\* items, err := xxx.GetXListFromChannels(channels, ...)
FanWorkerCall(w) ==
    /\ wpc[w] = "call"
    /\ \E r \in SubResults(w) : subRes' = [subRes EXCEPT ![w] = r]
    /\ wpc' = [wpc EXCEPT ![w] = "sendErr"]
    /\ UNCHANGED <<agg, errChan, errLog, cpc, i, got, ret>>
    /\ UNCHANGED outsideFan

\* errChan <- err   (blocks while the buffer holds numErrs elements)
FanWorkerSendErr(w) ==
    /\ wpc[w] = "sendErr"
    /\ Len(errChan) < numErrs(agg)
    /\ errChan' = Append(errChan, subRes[w].err)
    /\ errLog' = Append(errLog, subRes[w].err)
    /\ wpc' = [wpc EXCEPT ![w] = "sendList"]
    /\ UNCHANGED <<agg, subRes, cpc, i, got, ret>>
    /\ UNCHANGED outsideFan

\* One iteration of the caller's loop: err := <-errChan; if err != nil { return nil, err }
FanRecvErr ==
    /\ cpc = "errLoop"
    /\ i < numErrs(agg)
    /\ errChan # <<>>
    /\ errChan' = Tail(errChan)
    /\ IF Head(errChan) # Nil
         THEN /\ cpc' = "returned"
              /\ ret' = [result |-> Nil, err |-> Head(errChan)]
              /\ i' = i
         ELSE /\ i' = i + 1
              /\ cpc' = IF i + 1 < numErrs(agg) THEN "errLoop" ELSE "build"
              /\ ret' = ret
    /\ UNCHANGED <<agg, wpc, subRes, errLog, got>>
    /\ UNCHANGED outsideFan

\* The rendezvous on w's unbuffered value channel: the worker's "xChan <- items"
\* and the caller's "*(<-xChan)" inside the result struct literal.  Dereferencing
\* a nil list pointer panics.
FanRecvList(w) ==
    /\ cpc = "build"
    /\ Len(got) < Len(ReadOrder(agg))
    /\ w = ReadOrder(agg)[Len(got) + 1]
    /\ wpc[w] = "sendList"
    /\ wpc' = [wpc EXCEPT ![w] = "done"]
    /\ IF subRes[w].list = Nil
         THEN /\ cpc' = "panicked"
              /\ UNCHANGED <<got, ret>>
         ELSE /\ got' = Append(got, subRes[w].list)
              /\ IF Len(got) + 1 = Len(ReadOrder(agg))
                   THEN /\ cpc' = "returned"
                        /\ ret' = [result |-> [lists |-> Append(got, subRes[w].list)],
                                   err |-> Nil]
                   ELSE UNCHANGED <<cpc, ret>>
    /\ UNCHANGED <<agg, subRes, errChan, errLog, i>>
    /\ UNCHANGED outsideFan

FanNext ==
    \/ \E w \in AllWorkers : FanWorkerCall(w)
    \/ \E w \in AllWorkers : FanWorkerSendErr(w)
    \/ FanRecvErr
    \/ \E w \in AllWorkers : FanRecvList(w)

FanSpec == FanInit /\ [][FanNext]_vars

HasErr(w) == subRes[w] # NoRes /\ subRes[w].err # Nil

\* The first non-nil element of a sequence of errors, Nil when there is none.
FirstNonNil(s) ==
    IF \E k \in 1..Len(s) : s[k] # Nil
      THEN s[CHOOSE k \in 1..Len(s) : s[k] # Nil /\ \A j \in 1..(k - 1) : s[j] = Nil]
      ELSE Nil

\* C1: GetClusterFromChannels has received the error of every sub-aggregation it
\* launched before it reads any result value, and whenever a sub-aggregation
\* returned a non-nil error the call returns a non-nil error.
C1_ClusterWaitsForEveryError ==
    agg = "cluster" =>
        /\ (cpc \in {"build", "panicked"} \/ got # <<>>) => i = Len(Workers(agg))
        /\ (cpc \in {"returned", "panicked"} /\ \E w \in WorkerSet(agg) : HasErr(w))
              => (cpc = "returned" /\ ret.err # Nil)

\* C2: in GetDiscoveryFromChannels and GetConfigFromChannels, if a sub-aggregation
\* returned a non-nil error the call returns a nil result and the first non-nil
\* error sent on errChan; otherwise it returns an aggregate holding the list of
\* every sub-aggregation and a nil error.  The call never panics.
C2_FirstErrorOrFullAggregate ==
    agg \in {"discovery", "config"} =>
        /\ cpc # "panicked"
        /\ cpc = "returned" =>
              IF \E w \in WorkerSet(agg) : HasErr(w)
                THEN /\ ret.result = Nil
                     /\ ret.err # Nil
                     /\ ret.err = FirstNonNil(errLog)
                ELSE /\ ret.err = Nil
                     /\ ret.result # Nil
                     /\ \A w \in WorkerSet(agg) :
                           /\ subRes[w] # NoRes
                           /\ subRes[w].list \in SeqToSet(ret.result.lists)

\* One sibling failed, the other succeeded, and the call returned the error.
C2_Witness ==
    /\ agg = "discovery"
    /\ cpc = "returned"
    /\ ret.err = [error |-> "ingress"]
    /\ subRes["service"] # NoRes
    /\ subRes["service"].err = Nil

\* C3: once the call has returned an error and nothing can run any more, every
\* worker goroutine it launched has terminated (none is left blocked on the send
\* of its discarded result value).
C3_NoWorkerLeftBlocked ==
    (cpc = "returned" /\ ret.err # Nil /\ ~ENABLED FanNext)
        => \A w \in WorkerSet(agg) : wpc[w] = "done"

\* The category aggregations with a fair scheduler: a goroutine that can take a
\* step is not halted forever, and every sub-aggregation returns.
FanFairSpec == FanSpec /\ WF_vars(FanNext)

\* The caller is never blocked forever: it ends by returning or by panicking.
FanCallerEnds == <>(cpc \in {"returned", "panicked"})

\* C22: every call of GetClusterFromChannels, GetDiscoveryFromChannels and
\* GetConfigFromChannels eventually returns when every sub-aggregation returns.
C22_EveryCallReturns == <>(cpc = "returned")

-----------------------------------------------------------------------------
(* List aggregations over a ResourceChannels bundle                         *)

ListAggregations == {"job", "cronjob", "statefulset", "daemonset"}

\* The channels Get<X>List creates for the bundle it hands to Get<X>ListFromChannels.
Requested(a) ==
    CASE a = "job"         -> {"JobList", "PodList", "EventList"}
      [] a = "cronjob"     -> {"CronJobList", "JobList", "PodList", "EventList"}
      [] a = "statefulset" -> {"StatefulSetList", "PodList", "EventList"}
      [] a = "daemonset"   -> {"DaemonSetList", "ServiceList", "PodList", "EventList"}
      [] OTHER             -> {}

ListReadOrderEventsFirst(a) ==
    CASE a = "job"         -> <<"JobList", "EventList", "PodList">>
      [] a = "cronjob"     -> <<"CronJobList", "JobList", "EventList", "PodList">>
      [] a = "statefulset" -> <<"StatefulSetList", "EventList", "PodList">>
      [] a = "daemonset"   -> <<"DaemonSetList", "EventList", "PodList">>
      [] OTHER             -> <<>>

\* The kinds Get<X>ListFromChannels reads, in its fixed order.
ListReadOrder(a) ==
    CASE a = "job"         -> <<"JobList", "PodList", "EventList">>
      [] a = "cronjob"     -> <<"CronJobList", "JobList", "PodList", "EventList">>
      [] a = "statefulset" -> <<"StatefulSetList", "PodList", "EventList">>
      [] a = "daemonset"   -> <<"DaemonSetList", "PodList", "EventList">>
      [] OTHER             -> <<>>

Primary(a) == ListReadOrder(a)[1]

numReadsNone == 1 - 1

\* numReads: the last argument of every common.Get<Kind>ListChannel call.
numReads == 1

\* Largest number of items a fetched list holds.
MaxItems == 1

ItemSeqs == {[n \in 1..len |-> n] : len \in 0..MaxItems}

\* Errors a list call of the cluster API can end with: a *StatusError whose reason
\* is NotFound, a *StatusError with another reason, an error of another type.
FetchErrors(k) ==
    { [error |-> k, status |-> TRUE, reason |-> "NotFound"],
      [error |-> k, status |-> TRUE, reason |-> "Forbidden"],
      [error |-> k, status |-> FALSE, reason |-> ""] }

\* What client.<Kind>().List returns: a list with a nil error, or an (empty,
\* non-nil) list object with an error.
FetchOutcomes(k) ==
    {[list |-> [Items |-> s], err |-> Nil] : s \in ItemSeqs}
      \cup {[list |-> [Items |-> <<>>], err |-> e] : e \in FetchErrors(k)}

\* statusErr, ok := err.(*k8serrors.StatusError); ok && statusErr.ErrStatus.Reason == "NotFound"
IsNotFound(err) == err # Nil /\ err.status /\ err.reason = "NotFound"

\* The aggregations that answer a NotFound of their primary kind with an empty list.
TreatsNotFoundAsEmpty(a) == a \in {"job", "cronjob", "statefulset"}

OnErrorIgnoresEvents(a, k, err) ==
    IF err = Nil \/ k = "EventList" THEN "continue"
    ELSE IF k = Primary(a) /\ TreatsNotFoundAsEmpty(a) /\ IsNotFound(err) THEN "empty"
    ELSE "fail"

OnErrorAlwaysFails(a, k, err) == IF err = Nil THEN "continue" ELSE "fail"

\* What Get<X>ListFromChannels does with the error it received for kind k.
OnError(a, k, err) ==
    IF err = Nil THEN "continue"
    ELSE IF k = Primary(a) /\ TreatsNotFoundAsEmpty(a) /\ IsNotFound(err) THEN "empty"
    ELSE "fail"

\* dataselect.NoPagination
NoPagination == [itemsPerPage |-> -1, page |-> -1]

\* The queries of the modelled requests: everything, or the first page of size one.
DsQueries == {NoPagination, [itemsPerPage |-> 1, page |-> 0]}

PaginateFromNextPage(dataList, q) ==
    LET start == q.itemsPerPage * (q.page + 1)
        end   == IF start + q.itemsPerPage > Len(dataList) THEN Len(dataList)
                 ELSE start + q.itemsPerPage
    IN  IF ~(q.itemsPerPage >= 0 /\ q.page >= 0) THEN dataList
        ELSE IF ~(Len(dataList) > start /\ q.itemsPerPage > 0) THEN <<>>
        ELSE SubSeq(dataList, start + 1, end)

\* The pagination step of the data select: the window [itemsPerPage * page,
\* itemsPerPage * (page + 1)) clipped to the list, everything for an invalid
\* (negative) query, nothing when the page does not exist.
Paginate(dataList, q) ==
    LET start == q.itemsPerPage * q.page
        end   == IF start + q.itemsPerPage > Len(dataList) THEN Len(dataList)
                 ELSE start + q.itemsPerPage
    IN  IF ~(q.itemsPerPage >= 0 /\ q.page >= 0) THEN dataList
        ELSE IF ~(Len(dataList) > start /\ q.itemsPerPage > 0) THEN <<>>
        ELSE SubSeq(dataList, start + 1, end)

\* emptyList := &JobList{Jobs: make([]Job, 0)}
EmptyList == [Items |-> <<>>, TotalItems |-> 0, podsUsed |-> <<>>, eventsUsed |-> <<>>]

\* The value of Create<X>List(primary.Items, pods.Items, events.Items, dsQuery):
\* one entry per selected cell, the total of the unselected list, and the pods
\* and events the entries were correlated with.  The cron job list has one entry
\* per cron job; its data select is applied to the jobs.
ListResult(a, lists, q) ==
    [Items      |-> IF a = "cronjob" THEN lists[Primary(a)].Items
                    ELSE Paginate(lists[Primary(a)].Items, q),
     TotalItems |-> Len(lists[Primary(a)].Items),
     podsUsed   |-> lists["PodList"].Items,
     eventsUsed |-> lists["EventList"].Items]

ListInit ==
    /\ lagg \in ListAggregations
    /\ dsQuery \in DsQueries
    /\ fpc = [k \in AllKinds |-> IF k \in Requested(lagg) THEN "fetch" ELSE "absent"]
    /\ fcnt = [k \in AllKinds |-> 0]
    /\ fetched = [k \in AllKinds |-> NoRes]
    /\ chList = [k \in AllKinds |-> <<>>]
    /\ chErr = [k \in AllKinds |-> <<>>]
    /\ lpc = "recvList"
    /\ lidx = 1
    /\ gotList = [k \in AllKinds |-> Unread]
    /\ gotErr = [k \in AllKinds |-> Unread]
    /\ lret = NoRet
    /\ FanIdle
    /\ CreateIdle
    /\ SelIdle
    /\ CallIdle
    /\ DetIdle
    /\ CacheIdle

\* The fetch goroutine of kind k: list, err := client.<Kind>(...).List(...)
FetchList(k) ==
    /\ fpc[k] = "fetch"
    /\ \E r \in FetchOutcomes(k) : fetched' = [fetched EXCEPT ![k] = r]
    /\ fpc' = [fpc EXCEPT ![k] = IF fcnt[k] < numReads THEN "sendList" ELSE "done"]
    /\ UNCHANGED <<lagg, dsQuery, fcnt, chList, chErr, lpc, lidx, gotList, gotErr, lret>>
    /\ UNCHANGED outsideList

\* channel.List <- list, on a channel of capacity numReads
FetchSendList(k) ==
    /\ fpc[k] = "sendList"
    /\ Len(chList[k]) < numReads
    /\ chList' = [chList EXCEPT ![k] = Append(@, fetched[k].list)]
    /\ fpc' = [fpc EXCEPT ![k] = "sendErr"]
    /\ UNCHANGED <<lagg, dsQuery, fcnt, fetched, chErr, lpc, lidx, gotList, gotErr, lret>>
    /\ UNCHANGED outsideList

\* channel.Error <- err, on a channel of capacity numReads; ends one iteration
\* of "for i := 0; i < numReads; i++"
FetchSendErr(k) ==
    /\ fpc[k] = "sendErr"
    /\ Len(chErr[k]) < numReads
    /\ chErr' = [chErr EXCEPT ![k] = Append(@, fetched[k].err)]
    /\ fcnt' = [fcnt EXCEPT ![k] = @ + 1]
    /\ fpc' = [fpc EXCEPT ![k] = IF fcnt[k] + 1 < numReads THEN "sendList" ELSE "done"]
    /\ UNCHANGED <<lagg, dsQuery, fetched, chList, lpc, lidx, gotList, gotErr, lret>>
    /\ UNCHANGED outsideList

\* x := <-channels.<Kind>.List
ListRecvList ==
    /\ lpc = "recvList"
    /\ LET k == ListReadOrder(lagg)[lidx]
       IN  /\ chList[k] # <<>>
           /\ gotList' = [gotList EXCEPT ![k] = Head(chList[k])]
           /\ chList' = [chList EXCEPT ![k] = Tail(@)]
    /\ lpc' = "recvErr"
    /\ UNCHANGED <<lagg, dsQuery, fpc, fcnt, fetched, chErr, lidx, gotErr, lret>>
    /\ UNCHANGED outsideList

\* err := <-channels.<Kind>.Error and the branch on it; after the last kind the
\* call returns Create<X>List(...), nil.
ListRecvErr ==
    /\ lpc = "recvErr"
    /\ LET k   == ListReadOrder(lagg)[lidx]
           err == Head(chErr[k])
       IN  /\ chErr[k] # <<>>
           /\ gotErr' = [gotErr EXCEPT ![k] = err]
           /\ chErr' = [chErr EXCEPT ![k] = Tail(@)]
           /\ CASE OnError(lagg, k, err) = "empty" ->
                     /\ lpc' = "returned"
                     /\ lret' = [result |-> EmptyList, err |-> Nil]
                     /\ lidx' = lidx
                [] OnError(lagg, k, err) = "fail" ->
                     /\ lpc' = "returned"
                     /\ lret' = [result |-> Nil, err |-> err]
                     /\ lidx' = lidx
                [] OTHER ->
                     IF lidx < Len(ListReadOrder(lagg))
                       THEN /\ lidx' = lidx + 1
                            /\ lpc' = "recvList"
                            /\ lret' = lret
                       ELSE /\ lpc' = "returned"
                            /\ lret' = [result |-> ListResult(lagg, gotList, dsQuery),
                                        err |-> Nil]
                            /\ lidx' = lidx
    /\ UNCHANGED <<lagg, dsQuery, fpc, fcnt, fetched, chList, gotList>>
    /\ UNCHANGED outsideList

ListNext ==
    \/ \E k \in AllKinds : FetchList(k)
    \/ \E k \in AllKinds : FetchSendList(k)
    \/ \E k \in AllKinds : FetchSendErr(k)
    \/ ListRecvList
    \/ ListRecvErr

ListSpec == ListInit /\ [][ListNext]_vars

\* How often kind k's list (error) has been written into its channel: what the
\* channel still holds plus what the caller took out of it.
ListsDelivered(k) == Len(chList[k]) + (IF gotList[k] # Unread THEN 1 ELSE 0)
ErrsDelivered(k) == Len(chErr[k]) + (IF gotErr[k] # Unread THEN 1 ELSE 0)

FetchFailed(k) == fetched[k] # NoRes /\ fetched[k].err # Nil
FetchFailedNotFound(k) == FetchFailed(k) /\ IsNotFound(fetched[k].err)
FetchFailedOther(k) == FetchFailed(k) /\ ~IsNotFound(fetched[k].err)
FetchSucceeded(k) == fetched[k] # NoRes /\ fetched[k].err = Nil

\* C4: whatever the caller does (also after it returned early on one kind's
\* error), no fetch goroutine of the bundle is ever blocked, every slot holds at
\* most one element, a finished fetch has written its list and its error exactly
\* once, and when nothing can run any more every requested fetch has finished.
C4_SiblingFetchesIndependent ==
    /\ \A k \in Requested(lagg) :
          /\ fpc[k] = "fetch" => ENABLED FetchList(k)
          /\ fpc[k] = "sendList" => ENABLED FetchSendList(k)
          /\ fpc[k] = "sendErr" => ENABLED FetchSendErr(k)
          /\ Len(chList[k]) <= 1 /\ Len(chErr[k]) <= 1
          /\ fpc[k] = "done" => (ListsDelivered(k) = 1 /\ ErrsDelivered(k) = 1)
    /\ ~ENABLED ListNext => \A k \in Requested(lagg) : fpc[k] = "done"

\* The job list aggregation returned on the Job fetch's error without reading
\* the Pod and Event channels; both sibling fetches completed into their slots.
C4_Witness ==
    /\ lagg = "job"
    /\ lpc = "returned"
    /\ lidx = 1
    /\ lret.err # Nil
    /\ fpc["PodList"] = "done" /\ Len(chList["PodList"]) = 1 /\ Len(chErr["PodList"]) = 1
    /\ fpc["EventList"] = "done" /\ FetchFailed("EventList")
    /\ Len(chList["EventList"]) = 1 /\ Len(chErr["EventList"]) = 1

ClaimedKinds(a) == {Primary(a), "PodList", "EventList"}

\* C5 (as claimed): if the fetch of the primary kind, of Pod or of Event failed
\* with an error that is not NotFound, the call returns a nil result and a
\* non-nil error, whatever the outcome of the other fetches.
C5_OtherErrorAlwaysAborts ==
    (lpc = "returned" /\ \E k \in ClaimedKinds(lagg) : FetchFailedOther(k))
        => (lret.result = Nil /\ lret.err # Nil)

\* C5 (amended): the same, unless the primary kind's fetch of a job, cron job or
\* stateful set aggregation failed with NotFound (the call then returns the empty
\* list without reading the other kinds).
C5_OtherErrorAbortsUnlessPrimaryNotFound ==
    (/\ lpc = "returned"
     /\ \E k \in ClaimedKinds(lagg) : FetchFailedOther(k)
     /\ ~(TreatsNotFoundAsEmpty(lagg) /\ FetchFailedNotFound(Primary(lagg))))
        => (lret.result = Nil /\ lret.err # Nil)

\* The primary kind and Pod were fetched, the Event fetch failed with an error
\* that is not NotFound, and the call returned that error.
C5_Witness ==
    /\ lpc = "returned"
    /\ FetchSucceeded(Primary(lagg))
    /\ FetchSucceeded("PodList")
    /\ FetchFailedOther("EventList")
    /\ lret.result = Nil
    /\ lret.err = fetched["EventList"].err

\* C6: when the fetch of the primary kind of a job, cron job or stateful set
\* aggregation fails with a NotFound status error, the call returns a non-nil
\* list with zero items and a nil error.
C6_PrimaryNotFoundGivesEmptyList ==
    (/\ lpc = "returned"
     /\ lagg \in {"job", "cronjob", "statefulset"}
     /\ FetchFailedNotFound(Primary(lagg)))
        => (lret.result # Nil /\ Len(lret.result.Items) = 0 /\ lret.err = Nil)

C6_Witness ==
    /\ lpc = "returned"
    /\ lagg = "statefulset"
    /\ FetchFailedNotFound("StatefulSetList")
    /\ gotErr["StatefulSetList"] = fetched["StatefulSetList"].err

\* C7: if the Event fetch fails with NotFound while the primary kind and a
\* non-empty Pod list were fetched, the call returns no error and a result built
\* from an empty event list and the non-empty pod list.
C7_EventNotFoundIsEmptyEventList ==
    (/\ lpc = "returned"
     /\ FetchSucceeded(Primary(lagg))
     /\ \A k \in SeqToSet(ListReadOrder(lagg)) \ {"EventList"} : FetchSucceeded(k)
     /\ fetched["PodList"].list.Items # <<>>
     /\ FetchFailedNotFound("EventList"))
        => (/\ lret.err = Nil
            /\ lret.result # Nil
            /\ lret.result.eventsUsed = <<>>
            /\ lret.result.podsUsed # <<>>)

\* The (result, error) pairs the fetches delivered, as lists per kind.
DeliveredLists ==
    [k \in AllKinds |-> IF fetched[k] = NoRes THEN Unread ELSE fetched[k].list]

\* The position of the first kind of the order whose fetch failed, 0 if none did.
FirstFailing(order) ==
    LET failing == {n \in 1..Len(order) : FetchFailed(order[n])}
    IN  IF failing = {} THEN 0
        ELSE CHOOSE n \in failing : \A m \in failing : n <= m

\* Primary kind, then Pod, then Event.
PrimaryPodEvent(a) == <<Primary(a), "PodList", "EventList">>

\* Primary kind, the Job kind for the cron job list, then Pod, then Event.
PrimaryJobPodEvent(a) ==
    IF a = "cronjob" THEN <<Primary(a), "JobList", "PodList", "EventList">>
    ELSE PrimaryPodEvent(a)

\* C29 (as claimed): the returned result and error are determined by the
\* delivered (result, error) pairs alone, and when some fetch failed the error
\* reported is that of the first failing kind in the order primary kind, Pod,
\* Event.
C29_FirstFailingOfPrimaryPodEventReported ==
    lpc = "returned" =>
        LET order == PrimaryPodEvent(lagg)
            first == FirstFailing(order)
        IN  IF first = 0
              THEN lret = [result |-> ListResult(lagg, DeliveredLists, dsQuery),
                           err |-> Nil]
              ELSE lret = [result |-> Nil, err |-> fetched[order[first]].err]

\* C29 (amended): whatever the order in which the fetches completed, the
\* returned result and error are determined by the delivered (result, error)
\* pairs alone: with no failed fetch the list built from the delivered lists;
\* otherwise the outcome of the first failing kind in the order primary kind
\* (then Job, for the cron job list), Pod, Event, which is that kind's error,
\* or the empty list when it is the NotFound of the primary kind of a job, cron
\* job or stateful set list.
C29_OutcomeSetByFirstFailingInReadOrder ==
    lpc = "returned" =>
        LET order == PrimaryJobPodEvent(lagg)
            first == FirstFailing(order)
        IN  IF first = 0
              THEN /\ \A k \in SeqToSet(order) : FetchSucceeded(k)
                   /\ lret = [result |-> ListResult(lagg, DeliveredLists, dsQuery),
                              err |-> Nil]
            ELSE IF /\ first = 1
                    /\ TreatsNotFoundAsEmpty(lagg)
                    /\ IsNotFound(fetched[order[1]].err)
              THEN lret = [result |-> EmptyList, err |-> Nil]
              ELSE lret = [result |-> Nil, err |-> fetched[order[first]].err]

\* The Pod and the Event fetch both failed, the Event fetch had completed and
\* filled its channels while the caller had not read them, and the call
\* returned the Pod fetch's error.
C29_Witness ==
    /\ lpc = "returned"
    /\ FetchSucceeded(Primary(lagg))
    /\ FetchFailed("PodList")
    /\ FetchFailed("EventList")
    /\ fpc["EventList"] = "done"
    /\ Len(chErr["EventList"]) = 1
    /\ fpc["PodList"] = "done"
    /\ lret = [result |-> Nil, err |-> fetched["PodList"].err]
    /\ lret.err # fetched["EventList"].err

-----------------------------------------------------------------------------
(* List builders and the metric promise                                     *)

Builders == {"job", "statefulset", "daemonset"}

\* Largest number of primary items a builder is given.
MaxCells == 2

CellSeqs == {[n \in 1..len |-> n] : len \in 0..MaxCells}

MetricErr == [error |-> "metrics"]

\* What the asynchronous metric fetch resolves the promise with: the cumulative
\* metrics and a nil error, or an error with a nil or empty metrics slice.
MetricOutcomes ==
    { [metrics |-> <<"cpu">>, err |-> Nil],
      [metrics |-> <<>>, err |-> Nil],
      [metrics |-> Nil, err |-> MetricErr],
      [metrics |-> <<>>, err |-> MetricErr] }

ResolvesOnlyIntoWaitingReader(pc) == pc = "getMetrics"

\* The metric task writes into a slot of its own and needs no reader to finish.
MetricCanResolve(pc) == TRUE

CumulativeKeepsResult(metrics, err) == metrics

\* xList.CumulativeMetrics = cumulativeMetrics
\* if err != nil { xList.CumulativeMetrics = make([]metric.Metric, 0) }
CumulativeMetricsOf(metrics, err) == IF err # Nil THEN <<>> ELSE metrics

CreateInit ==
    /\ mk \in Builders
    /\ mkQuery \in DsQueries
    /\ metricQuery \in {"none", "cpu"}
    /\ cells \in CellSeqs
    /\ mkpc = "select"
    /\ selected = <<>>
    /\ mlist = Nil
    /\ mtask = "idle"
    /\ promise = <<>>
    /\ gm = NoRes
    /\ FanIdle
    /\ ListIdle
    /\ SelIdle
    /\ CallIdle
    /\ DetIdle
    /\ CacheIdle

\* xList := &XList{Items: make([]X, 0), ListMeta: {TotalItems: len(xs)}} and
\* cells, metricPromises := dataselect.GenericDataSelectWithMetrics(ToCells(xs), dsQuery, ...):
\* the selection returns at once; with a metric query the metric task is started,
\* without one the promise is already resolved to no metrics.
CreateSelect ==
    /\ mkpc = "select"
    /\ mlist' = [Items |-> <<>>, TotalItems |-> Len(cells), CumulativeMetrics |-> Nil]
    /\ selected' = Paginate(cells, mkQuery)
    /\ IF metricQuery = "none"
         THEN /\ promise' = <<[metrics |-> <<>>, err |-> Nil]>>
              /\ mtask' = "idle"
         ELSE /\ promise' = <<>>
              /\ mtask' = "fetching"
    /\ mkpc' = IF Paginate(cells, mkQuery) = <<>> THEN "getMetrics" ELSE "loop"
    /\ UNCHANGED <<mk, mkQuery, metricQuery, cells, gm>>
    /\ UNCHANGED outsideCreate

\* One iteration of "for _, x := range xs": xList.Items = append(xList.Items, ToX(...))
CreateAppend ==
    /\ mkpc = "loop"
    /\ Len(mlist.Items) < Len(selected)
    /\ mlist' = [mlist EXCEPT !.Items = Append(@, [cell |-> selected[Len(@) + 1]])]
    /\ mkpc' = IF Len(mlist.Items) + 1 < Len(selected) THEN "loop" ELSE "getMetrics"
    /\ UNCHANGED <<mk, mkQuery, metricQuery, cells, selected, mtask, promise, gm>>
    /\ UNCHANGED outsideCreate

\* The metric task completes or fails and resolves the promise.
MetricResolve ==
    /\ mtask = "fetching"
    /\ MetricCanResolve(mkpc)
    /\ Len(promise) < 1
    /\ \E o \in MetricOutcomes : promise' = Append(promise, o)
    /\ mtask' = "done"
    /\ UNCHANGED <<mk, mkQuery, metricQuery, cells, mkpc, selected, mlist, gm>>
    /\ UNCHANGED outsideCreate

\* cumulativeMetrics, err := metricPromises.GetMetrics() (blocks until the promise
\* is resolved), the assignment of CumulativeMetrics, and "return xList".
CreateGetMetrics ==
    /\ mkpc = "getMetrics"
    /\ promise # <<>>
    /\ gm' = Head(promise)
    /\ promise' = Tail(promise)
    /\ mlist' = [mlist EXCEPT !.CumulativeMetrics =
                    CumulativeMetricsOf(Head(promise).metrics, Head(promise).err)]
    /\ mkpc' = "returned"
    /\ UNCHANGED <<mk, mkQuery, metricQuery, cells, selected, mtask>>
    /\ UNCHANGED outsideCreate

CreateNext ==
    \/ CreateSelect
    \/ CreateAppend
    \/ MetricResolve
    \/ CreateGetMetrics

CreateSpec == CreateInit /\ [][CreateNext]_vars

\* C8: when GetMetrics returned an error, the list the builder returns holds one
\* entry for every selected cell, in order, and its CumulativeMetrics is an empty
\* non-nil list; the builder has no error to report.
C8_MetricFailureNeverFailsSelection ==
    (mkpc = "returned" /\ gm.err # Nil) =>
        /\ Len(mlist.Items) = Len(Paginate(cells, mkQuery))
        /\ \A n \in 1..Len(mlist.Items) : mlist.Items[n].cell = Paginate(cells, mkQuery)[n]
        /\ mlist.TotalItems = Len(cells)
        /\ mlist.CumulativeMetrics = <<>>

\* The metric fetch failed with a nil metrics slice and the builder returned a
\* list with an entry.
C8_Witness ==
    /\ mkpc = "returned"
    /\ gm.err # Nil
    /\ gm.metrics = Nil
    /\ Len(mlist.Items) >= 1

\* C9: the promise is resolved exactly once (its slot never holds more than one
\* value, and once the metric task is done the value is in the slot or was taken
\* by GetMetrics); GetMetrics returns only after the metric task completed or
\* failed; the metric task can always finish, whether or not GetMetrics is ever
\* called, and the synchronous part of the builder never waits for it.
C9_PromiseResolvedOnceAndIgnorable ==
    /\ Len(promise) <= 1
    /\ mtask = "done" => Len(promise) + (IF gm # NoRes THEN 1 ELSE 0) = 1
    /\ mkpc = "returned" => (mtask # "fetching" /\ gm # NoRes /\ promise = <<>>)
    /\ mtask = "fetching" => ENABLED MetricResolve
    /\ mkpc = "select" => ENABLED CreateSelect
    /\ mkpc = "loop" => ENABLED CreateAppend
    /\ (mkpc = "getMetrics" /\ mtask # "fetching") => ENABLED CreateGetMetrics

\* The metric task has resolved the promise while the builder is still in its
\* loop and has not called GetMetrics.
C9_Witness ==
    /\ mkpc = "loop"
    /\ mtask = "done"
    /\ Len(promise) = 1
    /\ gm = NoRes

-----------------------------------------------------------------------------
(* Pod lookups by selector                                                  *)

Controllers == {"job", "rc", "service"}

NamespaceSeq == <<"a", "b">>

Namespaces == SeqToSet(NamespaceSeq)

\* Label keys in the order labels.Selector.String() writes them (sorted by key).
LabelKeys == <<"app", "tier">>

\* A label map is a function from some of the keys to values.
LabelMapSeq ==
    << <<>>,
       [k \in {"app"} |-> "x"],
       [k \in {"app"} |-> "y"],
       [k \in {"app", "tier"} |-> IF k = "app" THEN "x" ELSE "f"] >>

LabelMaps == SeqToSet(LabelMapSeq)

\* Every pod the cluster can hold, in the order lists are returned in.
PodOrder ==
    [n \in 1..(Len(NamespaceSeq) * Len(LabelMapSeq)) |->
        [ns     |-> NamespaceSeq[((n - 1) \div Len(LabelMapSeq)) + 1],
         labels |-> LabelMapSeq[((n - 1) % Len(LabelMapSeq)) + 1]]]

PodUniverse == SeqToSet(PodOrder)

\* Largest number of pods the cluster holds.
MaxPods == 2

\* The selector a stored controller can have: job.Spec.Selector is a pointer to a
\* LabelSelector (nil, or one with MatchLabels); the selector of a replication
\* controller or service is a map (nil or not).
Selectors(c) ==
    IF c = "job"
      THEN {Nil} \cup {[MatchLabels |-> m] : m \in {Nil} \cup LabelMaps}
      ELSE {Nil} \cup LabelMaps

\* The label map the lookup hands to labels.SelectorFromSet.
SelectorMap(c, sel) == IF c = "job" THEN sel.MatchLabels ELSE sel

MapLen(m) == IF m = Nil THEN 0 ELSE Cardinality(DOMAIN m)

\* labels.SelectorFromSet(m).String(): the requirements "key=value" joined in key
\* order; the empty string for a nil or empty map.
SelectorString(m) ==
    IF m = Nil THEN <<>>
    ELSE LET has(k) == k \in DOMAIN m
             keys == SelectSeq(LabelKeys, has)
         IN  [n \in 1..Len(keys) |-> [key |-> keys[n], value |-> m[keys[n]]]]

\* The cluster API's label selection: a pod matches the parsed selector string
\* when it carries every requirement; the empty string selects everything.
MatchesSelectorString(pod, str) ==
    \A n \in 1..Len(str) :
        /\ str[n].key \in DOMAIN pod.labels
        /\ pod.labels[str[n].key] = str[n].value

\* Pods(namespace).List(ListOptions{LabelSelector: str}) on the cluster content.
ServerListPods(content, namespace, str) ==
    LET hit(p) == p \in content /\ p.ns = namespace /\ MatchesSelectorString(p, str)
    IN  SelectSeq(PodOrder, hit)

SelInit ==
    /\ ctl \in Controllers
    /\ ctlNs \in Namespaces
    /\ ctlSel \in Selectors(ctl)
    /\ cluster \in {c \in SUBSET PodUniverse : Cardinality(c) <= MaxPods}
    /\ spc = "get"
    /\ listReqs = 0
    /\ podChan = <<>>
    /\ sret = NoRet
    /\ FanIdle
    /\ ListIdle
    /\ CreateIdle
    /\ CallIdle
    /\ DetIdle
    /\ CacheIdle

\* GetServicePods answers a service without selector with the empty pod list and
\* issues no list request.
SkipsList(c, sel) == c = "service" /\ MapLen(sel) = 0

\* x, err := client.<Kind>(namespace).Get(name, ...); if err != nil { return nil, err };
\* then the selector is built (dereferencing a nil job.Spec.Selector panics) and
\* GetPodListChannelWithOptions issues the list request.
SelGet ==
    /\ spc = "get"
    /\ \/ /\ spc' = "returned"
          /\ sret' = [pods |-> Nil, err |-> [error |-> "get"]]
          /\ UNCHANGED listReqs
       \/ /\ SkipsList(ctl, ctlSel)
          /\ spc' = "returned"
          /\ sret' = [pods |-> <<>>, err |-> Nil]
          /\ UNCHANGED listReqs
       \/ /\ ~SkipsList(ctl, ctlSel)
          /\ ctl = "job" /\ ctlSel = Nil
          /\ spc' = "panicked"
          /\ UNCHANGED <<sret, listReqs>>
       \/ /\ ~SkipsList(ctl, ctlSel)
          /\ ~(ctl = "job" /\ ctlSel = Nil)
          /\ spc' = "fetch"
          /\ listReqs' = listReqs + 1
          /\ UNCHANGED sret
    /\ UNCHANGED <<ctl, ctlNs, ctlSel, cluster, podChan>>
    /\ UNCHANGED outsideSel

\* The fetch goroutine of the pod list channel: the list call with the label
\* selector string, its result or error put into the channel.
SelFetch ==
    /\ spc = "fetch"
    /\ podChan = <<>>
    /\ \/ podChan' = <<[list |-> [Items |-> ServerListPods(cluster, ctlNs,
                                       SelectorString(SelectorMap(ctl, ctlSel)))],
                        err |-> Nil]>>
       \/ podChan' = <<[list |-> [Items |-> <<>>], err |-> [error |-> "list"]]>>
    /\ spc' = "recv"
    /\ UNCHANGED <<ctl, ctlNs, ctlSel, cluster, listReqs, sret>>
    /\ UNCHANGED outsideSel

\* podList := <-channels.PodList.List
\* if err := <-channels.PodList.Error; err != nil { return nil, err }
\* return podList.Items, nil
SelRecv ==
    /\ spc = "recv"
    /\ podChan # <<>>
    /\ podChan' = <<>>
    /\ sret' = IF Head(podChan).err # Nil
                 THEN [pods |-> Nil, err |-> Head(podChan).err]
                 ELSE [pods |-> Head(podChan).list.Items, err |-> Nil]
    /\ spc' = "returned"
    /\ UNCHANGED <<ctl, ctlNs, ctlSel, cluster, listReqs>>
    /\ UNCHANGED outsideSel

SelNext ==
    \/ SelGet
    \/ SelFetch
    \/ SelRecv

SelSpec == SelInit /\ [][SelNext]_vars

\* C10: for a job, replication controller or service whose selector is empty or
\* nil, a lookup that succeeds returns no pods, and for a service without
\* selector no pod list request is issued.
C10_EmptySelectorMatchesNothing ==
    (/\ spc = "returned"
     /\ sret.err = Nil
     /\ (ctlSel = Nil \/ MapLen(SelectorMap(ctl, ctlSel)) = 0))
        => (sret.pods = <<>> /\ (ctl = "service" => listReqs = 0))

-----------------------------------------------------------------------------
(* Functions of the selection and correlation pipeline                      *)

\* ---- pod correlation: common.FilterNamespacedPodsBySelector

\* Largest number of candidate pods handed to the correlation.
MaxCandidates == 3

CandidateSeqs == UNION {[1..len -> PodUniverse] : len \in 0..MaxCandidates}

SelectorMatchesAnyPair(labelSelector, testedObjectLabels) ==
    /\ MapLen(labelSelector) # 0
    /\ \E key \in DOMAIN labelSelector :
          /\ key \in DOMAIN testedObjectLabels
          /\ testedObjectLabels[key] = labelSelector[key]

\* common.IsSelectorMatching: an empty selector matches nothing; otherwise every
\* key/value pair of the selector must be among the labels.
IsSelectorMatching(labelSelector, testedObjectLabels) ==
    /\ MapLen(labelSelector) # 0
    /\ \A key \in DOMAIN labelSelector :
          /\ key \in DOMAIN testedObjectLabels
          /\ testedObjectLabels[key] = labelSelector[key]

\* for _, pod := range pods { if pod.Namespace == namespace && IsSelectorMatching(...)
\*     { matchingPods = append(matchingPods, pod) } }
RECURSIVE FilterNamespacedPodsBySelector(_, _, _)
FilterNamespacedPodsBySelector(pods, namespace, resourceSelector) ==
    IF pods = <<>> THEN <<>>
    ELSE LET pod  == Head(pods)
             rest == FilterNamespacedPodsBySelector(Tail(pods), namespace, resourceSelector)
         IN  IF pod.ns = namespace /\ IsSelectorMatching(resourceSelector, pod.labels)
               THEN <<pod>> \o rest
               ELSE rest

CallFilterNamespacedPodsBySelector ==
    /\ fn = "FilterNamespacedPodsBySelector"
    /\ fnPc = "called"
    /\ fnRet' = FilterNamespacedPodsBySelector(fnArgs.pods, fnArgs.namespace,
                                               fnArgs.resourceSelector)
    /\ fnPc' = "returned"
    /\ UNCHANGED <<fn, fnArgs>>
    /\ UNCHANGED outsideCall

\* C11: for a controller with a non-empty selector, the matched pods are exactly
\* the candidates whose namespace equals the controller's and whose labels hold
\* every key/value pair of the selector, in candidate order.
C11_CorrelationIsNamespacePlusSubset ==
    (/\ fn = "FilterNamespacedPodsBySelector"
     /\ fnPc = "returned"
     /\ MapLen(fnArgs.resourceSelector) > 0)
        => LET s == fnArgs.resourceSelector
               matches(pod) ==
                   /\ pod.ns = fnArgs.namespace
                   /\ DOMAIN s \subseteq DOMAIN pod.labels
                   /\ \A key \in DOMAIN s : pod.labels[key] = s[key]
           IN  fnRet = SelectSeq(fnArgs.pods, matches)

\* Selector {app: x} over [{app:x,ns:a}, {app:y,ns:a}, {app:x,ns:b}] in namespace a
\* yields exactly [{app:x,ns:a}].
C11_Witness ==
    /\ fn = "FilterNamespacedPodsBySelector"
    /\ fnPc = "returned"
    /\ fnArgs.namespace = "a"
    /\ fnArgs.resourceSelector = [k \in {"app"} |-> "x"]
    /\ fnArgs.pods = << [ns |-> "a", labels |-> [k \in {"app"} |-> "x"]],
                        [ns |-> "a", labels |-> [k \in {"app"} |-> "y"]],
                        [ns |-> "b", labels |-> [k \in {"app"} |-> "x"]] >>
    /\ fnRet = << [ns |-> "a", labels |-> [k \in {"app"} |-> "x"]] >>

\* ---- pod classification: getPodPhaseStatus / GetPodPhaseStatus

PodPhases == {"Pending", "Running", "Succeeded", "Failed", "Unknown"}

ConditionTypes == {"PodScheduled", "Initialized", "Ready"}

ConditionStatuses == {"True", "False", "Unknown"}

\* Largest number of conditions in pod.Status.Conditions.
MaxConditions == 2

\* Largest number of warning events handed to the classification.
MaxWarnings == 1

\* pod.Status.Conditions: the API keeps at most one condition per type.
ConditionSeqs ==
    {c \in UNION {[1..len -> [Type : ConditionTypes, Status : ConditionStatuses]] :
                     len \in 0..MaxConditions} :
        \A m, n \in 1..Len(c) : c[m].Type = c[n].Type => m = n}

WarningSeqs == {[n \in 1..len |-> [warning |-> n]] : len \in 0..MaxWarnings}

\* The value of ready (typ = "Ready") or initialized (typ = "Initialized") after
\* "for _, c := range pod.Status.Conditions": every condition of the type
\* overwrites the variable, which starts false.
RECURSIVE ConditionFlag(_, _, _)
ConditionFlag(conditions, typ, flag) ==
    IF conditions = <<>> THEN flag
    ELSE ConditionFlag(Tail(conditions), typ,
                       IF Head(conditions).Type = typ
                         THEN Head(conditions).Status = "True"
                         ELSE flag)

PhaseIgnoresInitialized(pod, warnings) ==
    IF pod.Phase = "Failed" THEN "Failed"
    ELSE IF pod.Phase = "Succeeded" THEN "Succeeded"
    ELSE IF ConditionFlag(pod.Conditions, "Ready", FALSE) THEN "Running"
    ELSE IF Len(warnings) > 0 THEN "Failed"
    ELSE "Pending"

\* common.getPodPhaseStatus
getPodPhaseStatus(pod, warnings) ==
    IF pod.Phase = "Failed" THEN "Failed"
    ELSE IF pod.Phase = "Succeeded" THEN "Succeeded"
    ELSE IF /\ ConditionFlag(pod.Conditions, "Initialized", FALSE)
            /\ ConditionFlag(pod.Conditions, "Ready", FALSE) THEN "Running"
    ELSE IF Len(warnings) > 0 THEN "Failed"
    ELSE "Pending"

\* pod.GetPodPhaseStatus
GetPodPhaseStatus(pod, warnings) ==
    IF pod.Phase = "Failed" THEN "Failed"
    ELSE IF pod.Phase = "Succeeded" THEN "Succeeded"
    ELSE IF /\ ConditionFlag(pod.Conditions, "Initialized", FALSE)
            /\ ConditionFlag(pod.Conditions, "Ready", FALSE) THEN "Running"
    ELSE IF Len(warnings) > 0 THEN "Failed"
    ELSE "Pending"

CallgetPodPhaseStatus ==
    /\ fn = "getPodPhaseStatus"
    /\ fnPc = "called"
    /\ fnRet' = getPodPhaseStatus(fnArgs.pod, fnArgs.warnings)
    /\ fnPc' = "returned"
    /\ UNCHANGED <<fn, fnArgs>>
    /\ UNCHANGED outsideCall

CallGetPodPhaseStatus ==
    /\ fn = "GetPodPhaseStatus"
    /\ fnPc = "called"
    /\ fnRet' = GetPodPhaseStatus(fnArgs.pod, fnArgs.warnings)
    /\ fnPc' = "returned"
    /\ UNCHANGED <<fn, fnArgs>>
    /\ UNCHANGED outsideCall

\* The pod carries a condition of the type whose status is True.
HasTrueCondition(pod, typ) ==
    \E n \in 1..Len(pod.Conditions) :
        pod.Conditions[n].Type = typ /\ pod.Conditions[n].Status = "True"

\* C12: a pod whose phase is Failed is Failed and one whose phase is Succeeded is
\* Succeeded; otherwise it is Running exactly if both its Ready and its
\* Initialized condition are true; otherwise it is Failed if there is a warning
\* event; otherwise it is Pending.
C12_PhasePrecedence ==
    (fn \in {"getPodPhaseStatus", "GetPodPhaseStatus"} /\ fnPc = "returned") =>
        LET pod == fnArgs.pod
        IN  fnRet =
              CASE pod.Phase = "Failed" -> "Failed"
                [] pod.Phase = "Succeeded" -> "Succeeded"
                [] /\ pod.Phase \notin {"Failed", "Succeeded"}
                   /\ HasTrueCondition(pod, "Ready")
                   /\ HasTrueCondition(pod, "Initialized") -> "Running"
                [] /\ pod.Phase \notin {"Failed", "Succeeded"}
                   /\ ~(HasTrueCondition(pod, "Ready") /\ HasTrueCondition(pod, "Initialized"))
                   /\ fnArgs.warnings # <<>> -> "Failed"
                [] OTHER -> "Pending"

\* A pod whose phase is Running and which is ready but whose initialization has
\* not finished is classified Failed because of a warning event.
C12_Witness ==
    /\ fn = "getPodPhaseStatus"
    /\ fnPc = "returned"
    /\ fnArgs.pod.Phase = "Running"
    /\ HasTrueCondition(fnArgs.pod, "Ready")
    /\ ~HasTrueCondition(fnArgs.pod, "Initialized")
    /\ Len(fnArgs.pod.Conditions) = 2
    /\ fnArgs.warnings # <<>>
    /\ fnRet = "Failed"

\* ---- cron job to job correlation: FilterJobByAnnotation / FilterJobByAnnotationc

\* The nil slice, kept apart from the empty slice: a one-element sequence that
\* is no list of resources.
NilSlice == <<Nil>>

CronJobNames == {"c", "d"}

\* Largest number of jobs handed to the correlation.
MaxJobs == 2

\* api.CreatedByAnnotation
CreatedByAnnotation == "kubernetes.io/created-by"

\* Values the created-by annotation can hold: text that is not JSON, a JSON
\* object without a reference, or a serialized reference to an owner.
CreatedByValues ==
    {[json |-> FALSE], [json |-> TRUE, reference |-> Nil]}
      \cup {[json |-> TRUE, reference |-> [Namespace |-> ns, Name |-> nm]] :
               ns \in Namespaces, nm \in CronJobNames}

\* job.ObjectMeta.Annotations: without or with the created-by key.
AnnotationMaps == {<<>>} \cup {[k \in {CreatedByAnnotation} |-> v] : v \in CreatedByValues}

JobSeqs ==
    UNION {[1..len -> [Namespace : Namespaces, Annotations : AnnotationMaps]] :
              len \in 0..MaxJobs}

\* json.Unmarshal([]byte(value), &r): an error for text that is not JSON; fields
\* the JSON object does not hold keep their zero value.
Unmarshal(value) ==
    IF ~value.json THEN [err |-> [error |-> "json"], r |-> Nil]
    ELSE IF value.reference = Nil
           THEN [err |-> Nil, r |-> [Reference |-> [Namespace |-> "", Name |-> ""]]]
    ELSE [err |-> Nil, r |-> [Reference |-> value.reference]]

\* cronjob/list.go extractCreatedBy
extractCreatedBy(annotation) ==
    IF CreatedByAnnotation \in DOMAIN annotation
         /\ Unmarshal(annotation[CreatedByAnnotation]).err = Nil
      THEN Unmarshal(annotation[CreatedByAnnotation]).r.Reference
      ELSE Nil

\* cronjob/detail.go extractCreatedByc
extractCreatedByc(annotation) ==
    IF CreatedByAnnotation \in DOMAIN annotation
         /\ Unmarshal(annotation[CreatedByAnnotation]).err = Nil
      THEN Unmarshal(annotation[CreatedByAnnotation]).r.Reference
      ELSE Nil

\* cronjob/list.go FilterJobByAnnotation: "var matchingJobs []job.Job" stays nil
\* until the first append.
RECURSIVE FilterJobByAnnotation(_, _, _)
FilterJobByAnnotation(cronJob, jobs, matchingJobs) ==
    IF jobs = <<>> THEN matchingJobs
    ELSE LET job == Head(jobs)
             ref == extractCreatedBy(job.Annotations)
         IN  IF ref = Nil THEN FilterJobByAnnotation(cronJob, Tail(jobs), matchingJobs)
             ELSE IF ref.Name = cronJob.Name /\ cronJob.Namespace = job.Namespace
               THEN FilterJobByAnnotation(cronJob, Tail(jobs),
                        IF matchingJobs = NilSlice THEN <<job>> ELSE Append(matchingJobs, job))
             ELSE FilterJobByAnnotation(cronJob, Tail(jobs), matchingJobs)

\* cronjob/detail.go FilterJobByAnnotationc
RECURSIVE FilterJobByAnnotationc(_, _, _)
FilterJobByAnnotationc(cronJob, jobs, matchingJobs) ==
    IF jobs = <<>> THEN matchingJobs
    ELSE LET job == Head(jobs)
             ref == extractCreatedByc(job.Annotations)
         IN  IF ref = Nil THEN FilterJobByAnnotationc(cronJob, Tail(jobs), matchingJobs)
             ELSE IF ref.Name = cronJob.Name /\ cronJob.Namespace = job.Namespace
               THEN FilterJobByAnnotationc(cronJob, Tail(jobs),
                        IF matchingJobs = NilSlice THEN <<job>> ELSE Append(matchingJobs, job))
             ELSE FilterJobByAnnotationc(cronJob, Tail(jobs), matchingJobs)

CallFilterJobByAnnotation ==
    /\ fn = "FilterJobByAnnotation"
    /\ fnPc = "called"
    /\ fnRet' = FilterJobByAnnotation(fnArgs.cronJob, fnArgs.jobs, NilSlice)
    /\ fnPc' = "returned"
    /\ UNCHANGED <<fn, fnArgs>>
    /\ UNCHANGED outsideCall

CallFilterJobByAnnotationc ==
    /\ fn = "FilterJobByAnnotationc"
    /\ fnPc = "called"
    /\ fnRet' = FilterJobByAnnotationc(fnArgs.cronJob, fnArgs.jobs, NilSlice)
    /\ fnPc' = "returned"
    /\ UNCHANGED <<fn, fnArgs>>
    /\ UNCHANGED outsideCall

\* A Go slice as a sequence: the nil slice has no elements.
SliceSeq(s) == IF s = NilSlice THEN <<>> ELSE s

\* The job's created-by annotation is present, decodes, and names the cron job
\* by name and namespace.
ReferencesCronJob(job, cronJob) ==
    /\ CreatedByAnnotation \in DOMAIN job.Annotations
    /\ job.Annotations[CreatedByAnnotation].json
    /\ job.Annotations[CreatedByAnnotation].reference # Nil
    /\ job.Annotations[CreatedByAnnotation].reference.Name = cronJob.Name
    /\ job.Annotations[CreatedByAnnotation].reference.Namespace = cronJob.Namespace

\* C13: FilterJobByAnnotation and FilterJobByAnnotationc return, in input order,
\* exactly the jobs whose created-by annotation references the cron job by name
\* and namespace; jobs without or with an undecodable annotation are skipped.
C13_JobsReferencingTheCronJob ==
    (fn \in {"FilterJobByAnnotation", "FilterJobByAnnotationc"} /\ fnPc = "returned") =>
        LET refs(job) == ReferencesCronJob(job, fnArgs.cronJob)
        IN  SliceSeq(fnRet) = SelectSeq(fnArgs.jobs, refs)

\* ---- cell conversion: pod toCells/fromCells, stateful set ToCells/FromCells

\* The resources cells are made of: the identity fields GetProperty reads.
ResourceSeq ==
    << [Name |-> "a", Namespace |-> "a", CreationTimestamp |-> 1, Phase |-> "Running"],
       [Name |-> "a", Namespace |-> "b", CreationTimestamp |-> 2, Phase |-> "Pending"],
       [Name |-> "ab", Namespace |-> "a", CreationTimestamp |-> 2, Phase |-> "Running"],
       [Name |-> "b", Namespace |-> "b", CreationTimestamp |-> 1, Phase |-> "Pending"] >>

Resources == SeqToSet(ResourceSeq)

\* Largest number of resources in a list handed to the data select.
MaxResources == 3

ResourceLists == UNION {[1..len -> Resources] : len \in 0..MaxResources}

\* A Go slice of resources: nil or a list.
ResourceSlices == {NilSlice} \cup ResourceLists

\* make([]T, len(x)): the length of a nil slice is 0.
SliceLen(x) == IF x = NilSlice THEN 0 ELSE Len(x)

toCellsReversed(std) ==
    [n \in 1..SliceLen(std) |-> [cell |-> "PodCell", obj |-> std[SliceLen(std) + 1 - n]]]

\* pod/common.go toCells: cells[i] = PodCell(std[i])
toCells(std) == [n \in 1..SliceLen(std) |-> [cell |-> "PodCell", obj |-> std[n]]]

\* pod/common.go fromCells: std[i] = api.Pod(cells[i].(PodCell)); the type
\* assertion panics on a cell of another type.  The value is [std |-> the slice].
fromCells(cellSlice) ==
    IF \E n \in 1..SliceLen(cellSlice) : cellSlice[n].cell # "PodCell" THEN [panic |-> TRUE]
    ELSE [std |-> [n \in 1..SliceLen(cellSlice) |-> cellSlice[n].obj]]

\* statefulset ToCells: cells[i] = StatefulSetCell(std[i])
ToCells(std) == [n \in 1..SliceLen(std) |-> [cell |-> "StatefulSetCell", obj |-> std[n]]]

\* statefulset FromCells: std[i] = apps.StatefulSet(cells[i].(StatefulSetCell))
FromCells(cellSlice) ==
    IF \E n \in 1..SliceLen(cellSlice) : cellSlice[n].cell # "StatefulSetCell" THEN [panic |-> TRUE]
    ELSE [std |-> [n \in 1..SliceLen(cellSlice) |-> cellSlice[n].obj]]

CellKinds == {"pod", "statefulset"}

\* FromCells(ToCells(x)) of the kind's package.
CallCellRoundTrip ==
    /\ fn = "FromCells(ToCells)"
    /\ fnPc = "called"
    /\ LET r == IF fnArgs.kind = "pod" THEN fromCells(toCells(fnArgs.std))
                ELSE FromCells(ToCells(fnArgs.std))
       IN  IF r = [panic |-> TRUE]
             THEN fnPc' = "panicked" /\ fnRet' = fnRet
             ELSE fnPc' = "returned" /\ fnRet' = r.std
    /\ UNCHANGED <<fn, fnArgs>>
    /\ UNCHANGED outsideCall

\* C14: for every slice x of pods or stateful sets the round trip through cells
\* does not panic and gives a slice of the same length that equals x element by
\* element.
C14_CellRoundTripIsLossless ==
    fn = "FromCells(ToCells)" =>
        /\ fnPc # "panicked"
        /\ fnPc = "returned" =>
              /\ SliceLen(fnRet) = SliceLen(fnArgs.std)
              /\ \A n \in 1..SliceLen(fnArgs.std) : fnRet[n] = fnArgs.std[n]

\* A list of three pods with two different elements went through the round trip.
C14_Witness ==
    /\ fn = "FromCells(ToCells)"
    /\ fnPc = "returned"
    /\ fnArgs.kind = "pod"
    /\ fnArgs.std # NilSlice
    /\ Len(fnArgs.std) = 3
    /\ fnArgs.std[1] # fnArgs.std[3]
    /\ fnRet = fnArgs.std

\* ---- the generic cell abstraction and the data select engine

\* dataselect.NameProperty, CreationTimestampProperty, NamespaceProperty,
\* StatusProperty, and a name no cell recognizes.
PropertyNames == {"name", "creationTimestamp", "namespace", "status", "bogus"}

\* dataselect.StdComparableString / StdComparableTime
StdComparableString(s) == [string |-> s]
StdComparableTime(ts) == [time |-> ts]

\* PodCell.GetProperty
PodCellGetProperty(self, name) ==
    CASE name = "name"              -> StdComparableString(self.Name)
      [] name = "creationTimestamp" -> StdComparableTime(self.CreationTimestamp)
      [] name = "namespace"         -> StdComparableString(self.Namespace)
      [] name = "status"            -> StdComparableString(self.Phase)
      [] OTHER                      -> Nil

StatefulSetCellKnowsStatus(self, name) ==
    CASE name = "name"              -> StdComparableString(self.Name)
      [] name = "creationTimestamp" -> StdComparableTime(self.CreationTimestamp)
      [] name = "namespace"         -> StdComparableString(self.Namespace)
      [] name = "status"            -> StdComparableString(self.Phase)
      [] OTHER                      -> Nil

\* StatefulSetCell.GetProperty
StatefulSetCellGetProperty(self, name) ==
    CASE name = "name"              -> StdComparableString(self.Name)
      [] name = "creationTimestamp" -> StdComparableTime(self.CreationTimestamp)
      [] name = "namespace"         -> StdComparableString(self.Namespace)
      [] OTHER                      -> Nil

\* The method call cell.GetProperty(name) on a dataselect.DataCell.
GetProperty(cell, name) ==
    IF cell.cell = "PodCell" THEN PodCellGetProperty(cell.obj, name)
    ELSE StatefulSetCellGetProperty(cell.obj, name)

\* The strings of the modelled resources in byte order.
StringRank(s) ==
    LET StringOrder == <<"Pending", "Running", "a", "ab", "b">>
    IN  CHOOSE n \in 1..Len(StringOrder) : StringOrder[n] = s

\* ComparableValue.Compare: -1, 0 or 1.
Compare(a, b) ==
    LET x == IF "string" \in DOMAIN a THEN StringRank(a.string) ELSE a.time
        y == IF "string" \in DOMAIN b THEN StringRank(b.string) ELSE b.time
    IN  IF x < y THEN -1 ELSE IF x > y THEN 1 ELSE 0

\* One sort key of a SortQuery: a property name and a direction.
SortKeys == [Property : PropertyNames, Ascending : BOOLEAN]

\* The sort queries of the modelled requests: up to two keys.
SortQueries ==
    {<<>>} \cup {<<k>> : k \in SortKeys} \cup {<<k, l>> : k \in SortKeys, l \in SortKeys}

\* The ordering of the sort: the first key on which both cells have a value and
\* the values differ decides; a property a cell does not have is neutral; cells
\* that tie on every key are not ordered.
RECURSIVE Less(_, _, _)
Less(a, b, sortBy) ==
    IF sortBy = <<>> THEN FALSE
    ELSE LET key == Head(sortBy)
             va  == GetProperty(a, key.Property)
             vb  == GetProperty(b, key.Property)
         IN  IF va = Nil \/ vb = Nil THEN Less(a, b, Tail(sortBy))
             ELSE IF Compare(va, vb) = 0 THEN Less(a, b, Tail(sortBy))
             ELSE IF key.Ascending THEN Compare(va, vb) < 0
             ELSE Compare(va, vb) > 0

RECURSIVE InsertPosBeforeEqual(_, _, _, _)
InsertPosBeforeEqual(sorted, p, cellList, sortBy) ==
    IF sorted = <<>> THEN <<p>>
    ELSE IF ~Less(cellList[Head(sorted)], cellList[p], sortBy) THEN <<p>> \o sorted
    ELSE <<Head(sorted)>> \o InsertPosBeforeEqual(Tail(sorted), p, cellList, sortBy)

\* Insertion of the input position p into the sorted positions: before the first
\* position whose cell is ordered after p's cell.
RECURSIVE InsertPos(_, _, _, _)
InsertPos(sorted, p, cellList, sortBy) ==
    IF sorted = <<>> THEN <<p>>
    ELSE IF Less(cellList[p], cellList[Head(sorted)], sortBy) THEN <<p>> \o sorted
    ELSE <<Head(sorted)>> \o InsertPos(Tail(sorted), p, cellList, sortBy)

\* The positions of the first n cells in sorted order.
RECURSIVE SortedPositions(_, _, _)
SortedPositions(cellList, n, sortBy) ==
    IF n = 0 THEN <<>>
    ELSE InsertPos(SortedPositions(cellList, n - 1, sortBy), n, cellList, sortBy)

\* The sort step of the data select: a stable multi-key sort.
Sort(cellList, sortBy) ==
    LET pos == SortedPositions(cellList, Len(cellList), sortBy)
    IN  [n \in 1..Len(cellList) |-> cellList[pos[n]]]

\* The cells of a resource list of the kind.
CellsOf(kind, std) == IF kind = "pod" THEN toCells(std) ELSE ToCells(std)

CallSort ==
    /\ fn = "Sort"
    /\ fnPc = "called"
    /\ fnRet' = Sort(CellsOf(fnArgs.kind, fnArgs.std), fnArgs.sortBy)
    /\ fnPc' = "returned"
    /\ UNCHANGED <<fn, fnArgs>>
    /\ UNCHANGED outsideCall

\* The property names the switch of the kind's GetProperty has a case for.
RecognizedProperties(kind) ==
    IF kind = "pod" THEN {"name", "creationTimestamp", "namespace", "status"}
    ELSE {"name", "creationTimestamp", "namespace"}

\* Every property of the sort query is one the cells of the kind do not recognize.
AllKeysUnknown(kind, sortBy) ==
    /\ sortBy # <<>>
    /\ \A n \in 1..Len(sortBy) : sortBy[n].Property \notin RecognizedProperties(kind)

\* C15: sorting on property names the cells do not recognize returns the cells in
\* their input order, and the sort completes.
C15_UnknownPropertySortIsNoOp ==
    (fn = "Sort" /\ AllKeysUnknown(fnArgs.kind, fnArgs.sortBy)) =>
        /\ fnPc # "panicked"
        /\ fnPc = "returned" => fnRet = CellsOf(fnArgs.kind, fnArgs.std)

\* Stateful sets sorted on "status", which only pod cells recognize: the list
\* stays as it was although the phases are out of order.
C15_Witness ==
    /\ fn = "Sort"
    /\ fnPc = "returned"
    /\ fnArgs.kind = "statefulset"
    /\ fnArgs.sortBy = <<[Property |-> "status", Ascending |-> TRUE]>>
    /\ Len(fnArgs.std) = 2
    /\ fnArgs.std[1].Phase = "Running"
    /\ fnArgs.std[2].Phase = "Pending"
    /\ fnRet = ToCells(fnArgs.std)

\* The first key on which the two cells' values differ, 0 when they tie on all.
RECURSIVE FirstDifference(_, _, _, _)
FirstDifference(a, b, sortBy, n) ==
    IF n > Len(sortBy) THEN 0
    ELSE LET va == GetProperty(a, sortBy[n].Property)
             vb == GetProperty(b, sortBy[n].Property)
         IN  IF va # Nil /\ vb # Nil /\ va # vb THEN n
             ELSE FirstDifference(a, b, sortBy, n + 1)

TieOnAllKeys(a, b, sortBy) == FirstDifference(a, b, sortBy, 1) = 0

\* C18: the sort returns a rearrangement of its input in which cells that tie on
\* every sort key keep their relative input order: for every cell, the cells
\* tying with it form the same sequence in the result as in the input.
C18_SortIsStable ==
    (fn = "Sort" /\ fnPc = "returned") =>
        LET cellList == CellsOf(fnArgs.kind, fnArgs.std)
        IN  /\ Len(fnRet) = Len(cellList)
            /\ \A n \in 1..Len(cellList) :
                  LET tied(c) == TieOnAllKeys(cellList[n], c, fnArgs.sortBy)
                  IN  SelectSeq(fnRet, tied) = SelectSeq(cellList, tied)

\* Three pods sorted by name, descending: the two pods named "a" tie, differ in
\* their other fields and keep their input order behind the pod named "b".
C18_Witness ==
    /\ fn = "Sort"
    /\ fnPc = "returned"
    /\ fnArgs.kind = "pod"
    /\ fnArgs.sortBy = <<[Property |-> "name", Ascending |-> FALSE]>>
    /\ Len(fnArgs.std) = 3
    /\ fnArgs.std[1].Name = "a" /\ fnArgs.std[1].Namespace = "b"
    /\ fnArgs.std[2].Name = "b"
    /\ fnArgs.std[3].Name = "a" /\ fnArgs.std[3].Namespace = "a"
    /\ fnRet = toCells(<<fnArgs.std[2], fnArgs.std[1], fnArgs.std[3]>>)

\* ---- the data select: filter, sort, paginate

\* The characters of the names of the modelled resources and of the filter terms.
Chars(s) ==
    CASE s = "a"  -> <<"a">>
      [] s = "b"  -> <<"b">>
      [] s = "ab" -> <<"a", "b">>

\* strings.Contains(s, term)
Contains(s, term) ==
    \E n \in 1..(Len(Chars(s)) - Len(Chars(term)) + 1) :
        SubSeq(Chars(s), n, n + Len(Chars(term)) - 1) = Chars(term)

\* The filter queries of the modelled requests: terms matched against the name.
FilterQueries == {<<>>, <<"a">>, <<"b">>, <<"a", "b">>}

FilterKeepsMatchesOfSomeTerm(cellList, filterBy) ==
    LET keep(c) == \E n \in 1..Len(filterBy) :
                       Contains(GetProperty(c, "name").string, filterBy[n])
    IN  SelectSeq(cellList, keep)

\* The filter step: a cell is retained iff every term matches its name.
Filter(cellList, filterBy) ==
    LET keep(c) == \A n \in 1..Len(filterBy) :
                       Contains(GetProperty(c, "name").string, filterBy[n])
    IN  SelectSeq(cellList, keep)

\* Largest page size and largest page number of a pagination query.
MaxItemsPerPage == 2
MaxPage == 2

PaginationQueries ==
    {NoPagination}
      \cup {[itemsPerPage |-> n, page |-> pg] : n \in 0..MaxItemsPerPage, pg \in 0..MaxPage}

\* dataselect.NoDataSelect: no pagination, no sort, no filter.
NoDataSelect == [PaginationQuery |-> NoPagination, SortQuery |-> <<>>, FilterQuery |-> <<>>]

SelectQueries ==
    [PaginationQuery : PaginationQueries,
     SortQuery : {<<>>, <<[Property |-> "name", Ascending |-> TRUE]>>,
                  <<[Property |-> "name", Ascending |-> FALSE]>>},
     FilterQuery : FilterQueries]

\* The synchronous part of the data select: filter, then sort, then paginate.
Select(cellList, q) ==
    Paginate(Sort(Filter(cellList, q.FilterQuery), q.SortQuery), q.PaginationQuery)

CallSelect ==
    /\ fn = "Select"
    /\ fnPc = "called"
    /\ fnRet' = Select(toCells(fnArgs.std), fnArgs.dsQuery)
    /\ fnPc' = "returned"
    /\ UNCHANGED <<fn, fnArgs>>
    /\ UNCHANGED outsideCall

\* toThirdPartyResource: the list entry of a third party resource.
toThirdPartyResource(obj) ==
    [ObjectMeta |-> [Name |-> obj.Name, Namespace |-> obj.Namespace,
                     CreationTimestamp |-> obj.CreationTimestamp],
     TypeMeta |-> [Kind |-> "thirdpartyresource"]]

\* getThirdPartyResourceList(thirdPartyResources, dsQuery): the list starts empty
\* and non-nil with TotalItems len(thirdPartyResources) and gets one entry per
\* selected cell.
getThirdPartyResourceList(thirdPartyResources, query) ==
    LET tprCells == [n \in 1..SliceLen(thirdPartyResources) |->
                        [cell |-> "ThirdPartyResourceCell", obj |-> thirdPartyResources[n]]]
        selectedCells == Select(tprCells, query)
    IN  [ListMeta |-> [TotalItems |-> SliceLen(thirdPartyResources)],
         ThirdPartyResources |->
             [n \in 1..Len(selectedCells) |-> toThirdPartyResource(selectedCells[n].obj)]]

\* actual := getThirdPartyResourceList(c.thirdPartyResources, dataselect.NoDataSelect)
CallgetThirdPartyResourceList ==
    /\ fn = "getThirdPartyResourceList"
    /\ fnPc = "called"
    /\ fnRet' = getThirdPartyResourceList(fnArgs.thirdPartyResources, NoDataSelect)
    /\ fnPc' = "returned"
    /\ UNCHANGED <<fn, fnArgs>>
    /\ UNCHANGED outsideCall

\* C16: with the empty query (NoDataSelect) the select returns its input
\* unchanged, and getThirdPartyResourceList returns one entry per element of the
\* input, in order, with TotalItems the input's length; for a nil input the list
\* is empty and not nil.
C16_EmptyQuerySelectsEverything ==
    /\ (fn = "Select" /\ fnPc = "returned" /\ fnArgs.dsQuery = NoDataSelect)
          => fnRet = toCells(fnArgs.std)
    /\ (fn = "getThirdPartyResourceList" /\ fnPc = "returned") =>
          LET L == fnArgs.thirdPartyResources
          IN  /\ fnRet.ThirdPartyResources # NilSlice
              /\ Len(fnRet.ThirdPartyResources) = SliceLen(L)
              /\ fnRet.ListMeta.TotalItems = SliceLen(L)
              /\ \A n \in 1..SliceLen(L) :
                    fnRet.ThirdPartyResources[n] = toThirdPartyResource(L[n])

\* Three different resources went through getThirdPartyResourceList.
C16_Witness ==
    /\ fn = "getThirdPartyResourceList"
    /\ fnPc = "returned"
    /\ fnArgs.thirdPartyResources # NilSlice
    /\ Len(fnArgs.thirdPartyResources) = 3
    /\ fnArgs.thirdPartyResources[1] # fnArgs.thirdPartyResources[2]
    /\ fnArgs.thirdPartyResources[2] # fnArgs.thirdPartyResources[3]
    /\ Len(fnRet.ThirdPartyResources) = 3

\* ---- pagination of a request: parsePaginationPathParameter

\* The values of the query parameters "itemsPerPage" and "page" of a request.
PageParameters == {"", "x", "1", "2"}

\* parsePaginationPathParameter: the parsing of the two parameters is commented
\* out; every request gets dataselect.NoPagination.
parsePaginationPathParameter(request) == NoPagination

CallparsePaginationPathParameter ==
    /\ fn = "parsePaginationPathParameter"
    /\ fnPc = "called"
    /\ fnRet' = parsePaginationPathParameter(fnArgs)
    /\ fnPc' = "returned"
    /\ UNCHANGED <<fn, fnArgs>>
    /\ UNCHANGED outsideCall

\* The elements o+1 .. o+n (counted from 1) of a sequence, clipped to its length.
Window(s, o, n) ==
    LET last == IF o + n > Len(s) THEN Len(s) ELSE o + n
    IN  [k \in 1..(IF last > o THEN last - o ELSE 0) |-> s[o + k]]

\* C17: with offset o (itemsPerPage * page) and limit n (itemsPerPage) the select
\* returns the elements o .. o+n-1 (counted from 0) of the filtered and sorted
\* sequence, clipped to its length; an offset at or beyond the length gives the
\* empty result; the no-pagination sentinel, which is what every parsed request
\* carries, returns everything.
C17_PaginationWindow ==
    /\ (fn = "Select" /\ fnPc = "returned") =>
          LET q  == fnArgs.dsQuery
              pq == q.PaginationQuery
              sortedFiltered == Sort(Filter(toCells(fnArgs.std), q.FilterQuery), q.SortQuery)
          IN  IF pq = NoPagination THEN fnRet = sortedFiltered
              ELSE /\ fnRet = Window(sortedFiltered, pq.itemsPerPage * pq.page, pq.itemsPerPage)
                   /\ pq.itemsPerPage * pq.page >= Len(sortedFiltered) => fnRet = <<>>
    /\ (fn = "parsePaginationPathParameter" /\ fnPc = "returned") => fnRet = NoPagination

\* The second page of size one of a sorted list of three: exactly its second
\* element.
C17_Witness ==
    /\ fn = "Select"
    /\ fnPc = "returned"
    /\ fnArgs.dsQuery.PaginationQuery = [itemsPerPage |-> 1, page |-> 1]
    /\ fnArgs.dsQuery.SortQuery = <<[Property |-> "name", Ascending |-> FALSE]>>
    /\ fnArgs.dsQuery.FilterQuery = <<>>
    /\ Len(fnArgs.std) = 3
    /\ fnArgs.std[1].Name = "a" /\ fnArgs.std[2].Name = "b" /\ fnArgs.std[3].Name = "ab"
    /\ fnRet = toCells(<<fnArgs.std[3]>>)

\* ---- the CSRF filter of the API web service: xsrfValidation

Methods == {"GET", "POST", "PUT", "DELETE"}

\* Selected route paths of the web service, as strings.Split(path, "/") cuts them:
\* every registered route lies under /api/v1/.
RoutePaths ==
    { <<"", "api", "v1", "appdeployment">>,
      <<"", "api", "v1", "appdeployment", "validate", "name">>,
      <<"", "api", "v1", "pod", "{namespace}">>,
      <<"", "api", "v1", "csrftoken", "{action}">> }

\* apiHandler.csrfKey
csrfKey == "key"

\* The X-CSRF-TOKEN header: absent, or a token generated with a key for an
\* action, possibly expired.
Tokens ==
    {Nil} \cup [key : {csrfKey, "forged"}, actionID : {"appdeployment", "pod"},
                expired : BOOLEAN]

\* xsrftoken.Valid(token, key, "none", actionID)
Valid(token, key, actionID) ==
    /\ token # Nil
    /\ token.key = key
    /\ token.actionID = actionID
    /\ ~token.expired

\* mapUrlToResource: nil for fewer than three parts, else a pointer to parts[3]
\* (counted from 0), which is out of range for exactly three parts.
mapUrlToResource(parts) ==
    IF Len(parts) < 3 THEN Nil
    ELSE IF Len(parts) < 4 THEN [panic |-> TRUE]
    ELSE [ptr |-> parts[4]]

\* strings.HasPrefix(req.SelectedRoutePath(), "/api/v1/appdeployment/validate/")
HasValidatePrefix(parts) ==
    /\ Len(parts) >= 6
    /\ SubSeq(parts, 1, 5) = <<"", "api", "v1", "appdeployment", "validate">>

\* shouldDoCsrfValidation: each of its three return statements returns false.
shouldDoCsrfValidation(req) ==
    IF req.Method # "POST" THEN FALSE
    ELSE IF HasValidatePrefix(req.SelectedRoutePath) THEN FALSE
    ELSE FALSE

\* The filter xsrfValidation(csrfKey) returns: 401 without calling the rest of
\* the chain, or chain.ProcessFilter(req, resp).
xsrfValidation(req) ==
    LET resource == mapUrlToResource(req.SelectedRoutePath)
    IN  IF resource = [panic |-> TRUE] THEN [panic |-> TRUE]
        ELSE IF resource = Nil
                  \/ (shouldDoCsrfValidation(req) /\ ~Valid(req.token, csrfKey, resource.ptr))
          THEN [status |-> "401 Unauthorized", chained |-> FALSE]
        ELSE [status |-> "from the chain", chained |-> TRUE]

CallxsrfValidation ==
    /\ fn = "xsrfValidation"
    /\ fnPc = "called"
    /\ IF xsrfValidation(fnArgs) = [panic |-> TRUE]
         THEN fnPc' = "panicked" /\ fnRet' = fnRet
         ELSE fnPc' = "returned" /\ fnRet' = xsrfValidation(fnArgs)
    /\ UNCHANGED <<fn, fnArgs>>
    /\ UNCHANGED outsideCall

\* C20: a POST whose X-CSRF-TOKEN is not valid for the requested resource is
\* answered 401 and not passed down the filter chain, unless its route is one of
\* /api/v1/appdeployment/validate/; requests with another method are passed on.
C20_PostNeedsValidCsrfToken ==
    (fn = "xsrfValidation" /\ fnPc = "returned") =>
        /\ (/\ fnArgs.Method = "POST"
            /\ ~HasValidatePrefix(fnArgs.SelectedRoutePath)
            /\ ~Valid(fnArgs.token, csrfKey, fnArgs.SelectedRoutePath[4]))
              => (fnRet.status = "401 Unauthorized" /\ ~fnRet.chained)
        /\ fnArgs.Method # "POST" => fnRet.chained

\* URL paths as strings.Split(url, "/") cuts them: "", "/", "/api/v1", and the
\* selected route paths.
UrlPaths == {<<"">>, <<"", "">>, <<"", "api", "v1">>} \cup RoutePaths

\* One call mapUrlToResource(url).
CallmapUrlToResource ==
    /\ fn = "mapUrlToResource"
    /\ fnPc = "called"
    /\ IF mapUrlToResource(fnArgs.url) = [panic |-> TRUE]
         THEN fnPc' = "panicked" /\ fnRet' = fnRet
         ELSE fnPc' = "returned" /\ fnRet' = mapUrlToResource(fnArgs.url)
    /\ UNCHANGED <<fn, fnArgs>>
    /\ UNCHANGED outsideCall

\* C30: mapUrlToResource never fails; it returns nil for a path of fewer than
\* four parts, and the filter then answers 401 without invoking the chain;
\* otherwise it returns the segment that follows /api/v1/.
C30_mapUrlToResourceIsTotal ==
    fn = "mapUrlToResource" =>
        /\ fnPc # "panicked"
        /\ fnPc = "returned" =>
              IF Len(fnArgs.url) < 4
                THEN /\ fnRet = Nil
                     /\ xsrfValidation([Method |-> "GET", SelectedRoutePath |-> fnArgs.url,
                                        token |-> Nil])
                           = [status |-> "401 Unauthorized", chained |-> FALSE]
                ELSE fnRet = [ptr |-> fnArgs.url[4]]

\* ---- pod group counters: GetPodEventInfo / GetPodInfo

\* Largest number of pods in a group.
MaxGroup == 2

\* The pods of a group: every phase, without conditions or initialized and ready.
GroupPods ==
    [Phase : PodPhases,
     Conditions : {<<>>, <<[Type |-> "Initialized", Status |-> "True"],
                           [Type |-> "Ready", Status |-> "True"]>>}]

GroupLists == UNION {[1..len -> GroupPods] : len \in 0..MaxGroup}

CountPhaseUnknownAsPending(result, phase) ==
    CASE phase = "Running"   -> [result EXCEPT !.Running = @ + 1]
      [] phase = "Failed"    -> [result EXCEPT !.Failed = @ + 1]
      [] phase = "Succeeded" -> [result EXCEPT !.Succeeded = @ + 1]
      [] OTHER               -> [result EXCEPT !.Pending = @ + 1]

\* switch pod.Status.Phase { case api.PodRunning: result.Running++ ... }: a phase
\* without a case changes nothing.
CountPhase(result, phase) ==
    CASE phase = "Running"   -> [result EXCEPT !.Running = @ + 1]
      [] phase = "Pending"   -> [result EXCEPT !.Pending = @ + 1]
      [] phase = "Failed"    -> [result EXCEPT !.Failed = @ + 1]
      [] phase = "Succeeded" -> [result EXCEPT !.Succeeded = @ + 1]
      [] OTHER               -> result

\* result := PodInfo{Current: current, Desired: desired, Warnings: make([]Event, 0)}
NewPodInfo(current, desired) ==
    [Current |-> current, Desired |-> desired, Running |-> 0, Pending |-> 0,
     Failed |-> 0, Succeeded |-> 0, Warnings |-> <<>>]

RECURSIVE EventInfoLoopWritesSlice(_, _, _, _)
EventInfoLoopWritesSlice(pods, n, eve, result) ==
    IF n > Len(pods) THEN [result |-> [result EXCEPT !.Warnings = eve], pods |-> pods]
    ELSE LET pod == [pods[n] EXCEPT !.Phase = getPodPhaseStatus(pods[n], eve)]
         IN  EventInfoLoopWritesSlice([pods EXCEPT ![n] = pod], n + 1, eve,
                                      CountPhase(result, pod.Phase))

\* The loop of GetPodEventInfo from element n on: "for _, pod := range pods"
\* copies the element into pod, the reclassified phase is assigned to the copy
\* and counted; then result.Warnings = eve.  The value is the result and the
\* slice as the loop leaves it.
RECURSIVE GetPodEventInfoLoop(_, _, _, _)
GetPodEventInfoLoop(pods, n, eve, result) ==
    IF n > Len(pods) THEN [result |-> [result EXCEPT !.Warnings = eve], pods |-> pods]
    ELSE LET pod == [pods[n] EXCEPT !.Phase = getPodPhaseStatus(pods[n], eve)]
         IN  GetPodEventInfoLoop(pods, n + 1, eve, CountPhase(result, pod.Phase))

\* common.GetPodEventInfo
GetPodEventInfo(current, desired, pods, eve) ==
    GetPodEventInfoLoop(pods, 1, eve, NewPodInfo(current, desired))

\* The loop of GetPodInfo from element n on: the stored phase is counted.
RECURSIVE GetPodInfoLoop(_, _, _)
GetPodInfoLoop(pods, n, result) ==
    IF n > Len(pods) THEN [result |-> result, pods |-> pods]
    ELSE GetPodInfoLoop(pods, n + 1, CountPhase(result, pods[n].Phase))

\* common.GetPodInfo
GetPodInfo(current, desired, pods) ==
    GetPodInfoLoop(pods, 1, NewPodInfo(current, desired))

CallGetPodEventInfo ==
    /\ fn = "GetPodEventInfo"
    /\ fnPc = "called"
    /\ fnRet' = GetPodEventInfo(fnArgs.current, fnArgs.desired, fnArgs.pods, fnArgs.eve)
    /\ fnPc' = "returned"
    /\ UNCHANGED <<fn, fnArgs>>
    /\ UNCHANGED outsideCall

CallGetPodInfo ==
    /\ fn = "GetPodInfo"
    /\ fnPc = "called"
    /\ fnRet' = GetPodInfo(fnArgs.current, fnArgs.desired, fnArgs.pods)
    /\ fnPc' = "returned"
    /\ UNCHANGED <<fn, fnArgs>>
    /\ UNCHANGED outsideCall

\* C23: GetPodEventInfo and GetPodInfo leave the pods slice they are given
\* unchanged: after the call the slice holds exactly the pods it held before.
C23_PodsAreReadOnly ==
    (fn \in {"GetPodEventInfo", "GetPodInfo"} /\ fnPc = "returned")
        => fnRet.pods = fnArgs.pods

\* A pod stored as Running without conditions is counted as Pending by
\* GetPodEventInfo and is still stored as Running afterwards.
C23_Witness ==
    /\ fn = "GetPodEventInfo"
    /\ fnPc = "returned"
    /\ Len(fnArgs.pods) = 1
    /\ fnArgs.pods[1] = [Phase |-> "Running", Conditions |-> <<>>]
    /\ fnArgs.eve = <<>>
    /\ fnRet.result.Pending = 1
    /\ fnRet.pods[1].Phase = "Running"

\* The sum of the four buckets of a PodInfo.
Buckets(info) == info.Running + info.Pending + info.Failed + info.Succeeded

\* C25: GetPodEventInfo counts every pod in exactly one bucket and returns its
\* arguments as Current and Desired; GetPodInfo leaves out exactly the pods whose
\* phase is none of Running, Pending, Failed, Succeeded.
C25_BucketsPartitionThePods ==
    /\ (fn = "GetPodEventInfo" /\ fnPc = "returned") =>
          /\ Buckets(fnRet.result) = Len(fnArgs.pods)
          /\ fnRet.result.Current = fnArgs.current
          /\ fnRet.result.Desired = fnArgs.desired
    /\ (fn = "GetPodInfo" /\ fnPc = "returned") =>
          LET counted(pod) == pod.Phase \in {"Running", "Pending", "Failed", "Succeeded"}
          IN  /\ Buckets(fnRet.result) = Len(SelectSeq(fnArgs.pods, counted))
              /\ Buckets(fnRet.result) <= Len(fnArgs.pods)

\* GetPodInfo on a pod of phase Unknown and a Running pod counts one pod only.
C25_Witness ==
    /\ fn = "GetPodInfo"
    /\ fnPc = "returned"
    /\ Len(fnArgs.pods) = 2
    /\ fnArgs.pods[1].Phase = "Unknown"
    /\ fnArgs.pods[2].Phase = "Running"
    /\ Buckets(fnRet.result) = 1
    /\ fnRet.result.Running = 1

\* ---- metric conversion: DataPointsFromMetricJSONFormat

\* Width of the integers of the conversion: the model's uint64 and int64 have
\* IntBits bits, so that the values beyond the signed range can be enumerated.
IntBits == 4

\* Largest number of samples in a heapster.MetricResult.
MaxSamples == 2

\* The sample values: the ends of the unsigned range and both sides of the
\* largest signed value.
SampleValues == {0, 1, 2^(IntBits - 1) - 1, 2^(IntBits - 1), 2^IntBits - 1}

\* heapster.MetricPoint: a time stamp (given by its Unix time) and an unsigned value.
MetricPoints == [Timestamp : {[unix |-> 0], [unix |-> 5]}, Value : SampleValues]

MetricResults == [Metrics : UNION {[1..len -> MetricPoints] : len \in 0..MaxSamples}]

\* int64(v) of an unsigned v: the same bits read as two's complement.
ToInt64(v) == IF v < 2^(IntBits - 1) THEN v ELSE v - 2^IntBits

DataPointKeepsNegative(raw) == [X |-> raw.Timestamp.unix, Y |-> ToInt64(raw.Value)]

\* converted := DataPoint{X: raw.Timestamp.Unix(), Y: int64(raw.Value)}
\* if converted.Y < 0 { converted.Y = 0 }
DataPointOf(raw) ==
    LET converted == [X |-> raw.Timestamp.unix, Y |-> ToInt64(raw.Value)]
    IN  IF converted.Y < 0 THEN [converted EXCEPT !.Y = 0] ELSE converted

\* metric.DataPointsFromMetricJSONFormat
DataPointsFromMetricJSONFormat(raw) ==
    [n \in 1..Len(raw.Metrics) |-> DataPointOf(raw.Metrics[n])]

CallDataPointsFromMetricJSONFormat ==
    /\ fn = "DataPointsFromMetricJSONFormat"
    /\ fnPc = "called"
    /\ fnRet' = DataPointsFromMetricJSONFormat(fnArgs)
    /\ fnPc' = "returned"
    /\ UNCHANGED <<fn, fnArgs>>
    /\ UNCHANGED outsideCall

\* C24: DataPointsFromMetricJSONFormat returns one data point per sample, in
\* order, with X the Unix time of the sample and Y the sample value when it is
\* within the signed range and 0 otherwise; no Y is negative.
C24_DataPointsAreConvertedAndNonNegative ==
    (fn = "DataPointsFromMetricJSONFormat" /\ fnPc = "returned") =>
        /\ Len(fnRet) = Len(fnArgs.Metrics)
        /\ \A n \in 1..Len(fnRet) :
              /\ fnRet[n].X = fnArgs.Metrics[n].Timestamp.unix
              /\ fnRet[n].Y >= 0
              /\ fnRet[n].Y = IF fnArgs.Metrics[n].Value <= 2^(IntBits - 1) - 1
                                THEN fnArgs.Metrics[n].Value ELSE 0

\* Two samples, the first just beyond the signed range, the second the largest
\* signed value: the first becomes 0, the second is kept.
C24_Witness ==
    /\ fn = "DataPointsFromMetricJSONFormat"
    /\ fnPc = "returned"
    /\ Len(fnArgs.Metrics) = 2
    /\ fnArgs.Metrics[1].Value = 2^(IntBits - 1)
    /\ fnArgs.Metrics[2].Value = 2^(IntBits - 1) - 1
    /\ fnRet[1].Y = 0
    /\ fnRet[2].Y = 2^(IntBits - 1) - 1

\* ---- cron job aggregation: toCronJob / toCronJobDetail

\* Largest number of jobs matched to a cron job.
MaxMatched == 2

\* The jobs matched to a cron job: job.Pods (the counters and warnings of the
\* job, Warnings being nil, empty or not) and job.PodList.Pods.
MatchedJobs ==
    { [Pods |-> [Current |-> c[1], Desired |-> c[3], Running |-> c[1], Pending |-> 0,
                 Failed |-> c[2], Succeeded |-> c[2], Warnings |-> w],
       PodList |-> [Pods |-> pl]] :
        c \in {<<1, 0, 0>>, <<0, 1, 2>>},
        w \in {NilSlice, <<>>, <<[warning |-> 1]>>},
        pl \in {<<>>, <<"p">>, <<"q", "r">>} }

MatchedJobLists == UNION {[1..len -> MatchedJobs] : len \in 0..MaxMatched}

\* The loop of toCronJob from job n on, and the statements behind it.  cron has
\* the fields Pods (the aggregated PodInfo) and PodList.
RECURSIVE toCronJobLoop(_, _, _)
toCronJobLoop(jobs, n, cron) ==
    IF n > Len(jobs)
      THEN LET desired == IF cron.Pods.Desired < Len(cron.PodList.Pods)
                            THEN Len(cron.PodList.Pods) ELSE cron.Pods.Desired
           IN  [Pods    |-> [cron.Pods EXCEPT !.Desired = desired],
                PodList |-> [Pods |-> cron.PodList.Pods,
                             ListMeta |-> [TotalItems |-> Len(cron.PodList.Pods)]]]
      ELSE LET job == jobs[n]
               counted == [cron.Pods EXCEPT
                              !.Current = job.Pods.Succeeded + @,
                              !.Desired = job.Pods.Desired + @,
                              !.Running = job.Pods.Running + @,
                              !.Pending = job.Pods.Pending + @,
                              !.Failed  = job.Pods.Failed + @]
               warned == IF job.Pods.Warnings # NilSlice
                           THEN [counted EXCEPT !.Warnings = @ \o job.Pods.Warnings]
                           ELSE counted
           IN  toCronJobLoop(jobs, n + 1,
                   [Pods    |-> warned,
                    PodList |-> [cron.PodList EXCEPT !.Pods = @ \o job.PodList.Pods]])

\* cronjob.toCronJob
toCronJob(jobs) ==
    toCronJobLoop(jobs, 1,
        [Pods    |-> NewPodInfo(0, 0),
         PodList |-> [Pods |-> <<>>, ListMeta |-> [TotalItems |-> 0]]])

\* The loop of toCronJobDetail from job n on, and the statements behind it: a
\* job whose Warnings are nil ends the loop (break).  cron has the fields
\* PodInfo and PodList.
RECURSIVE toCronJobDetailLoop(_, _, _)
toCronJobDetailLoop(jobs, n, cron) ==
    LET done(c) ==
            LET desired == IF c.PodInfo.Desired < Len(c.PodList.Pods)
                             THEN Len(c.PodList.Pods) ELSE c.PodInfo.Desired
            IN  [PodInfo |-> [c.PodInfo EXCEPT !.Desired = desired],
                 PodList |-> [Pods |-> c.PodList.Pods,
                              ListMeta |-> [TotalItems |-> Len(c.PodList.Pods)]]]
    IN  IF n > Len(jobs) THEN done(cron)
        ELSE LET job == jobs[n]
                 counted == [cron.PodInfo EXCEPT
                                !.Current = job.Pods.Succeeded + @,
                                !.Desired = job.Pods.Desired + @,
                                !.Running = job.Pods.Running + @,
                                !.Pending = job.Pods.Pending + @,
                                !.Failed  = job.Pods.Failed + @]
             IN  IF job.Pods.Warnings = NilSlice
                   THEN done([cron EXCEPT !.PodInfo = counted])
                   ELSE toCronJobDetailLoop(jobs, n + 1,
                            [PodInfo |-> [counted EXCEPT !.Warnings = @ \o job.Pods.Warnings],
                             PodList |-> [cron.PodList EXCEPT !.Pods = @ \o job.PodList.Pods]])

\* cronjob.toCronJobDetail
toCronJobDetail(jobs) ==
    toCronJobDetailLoop(jobs, 1,
        [PodInfo |-> NewPodInfo(0, 0),
         PodList |-> [Pods |-> <<>>, ListMeta |-> [TotalItems |-> 0]]])

CalltoCronJob ==
    /\ fn = "toCronJob"
    /\ fnPc = "called"
    /\ fnRet' = toCronJob(fnArgs.jobs)
    /\ fnPc' = "returned"
    /\ UNCHANGED <<fn, fnArgs>>
    /\ UNCHANGED outsideCall

CalltoCronJobDetail ==
    /\ fn = "toCronJobDetail"
    /\ fnPc = "called"
    /\ fnRet' = toCronJobDetail(fnArgs.jobs)
    /\ fnPc' = "returned"
    /\ UNCHANGED <<fn, fnArgs>>
    /\ UNCHANGED outsideCall

\* The sum of one counter of job.Pods over the jobs.
RECURSIVE SumOfCounter(_, _)
SumOfCounter(jobs, counter) ==
    IF jobs = <<>> THEN 0
    ELSE Head(jobs).Pods[counter] + SumOfCounter(Tail(jobs), counter)

\* The concatenation, in job order, of the jobs' warnings.
RECURSIVE AllWarnings(_)
AllWarnings(jobs) ==
    IF jobs = <<>> THEN <<>>
    ELSE SliceSeq(Head(jobs).Pods.Warnings) \o AllWarnings(Tail(jobs))

\* The concatenation, in job order, of the jobs' pod lists.
RECURSIVE AllPods(_)
AllPods(jobs) ==
    IF jobs = <<>> THEN <<>>
    ELSE Head(jobs).PodList.Pods \o AllPods(Tail(jobs))

\* The aggregated PodInfo a call returned.
AggregatedInfo == IF fn = "toCronJob" THEN fnRet.Pods ELSE fnRet.PodInfo

\* C26: every counter of the PodInfo that toCronJob and toCronJobDetail build is
\* the sum of the same counter over the matched jobs, Desired being raised to the
\* number of listed pods when the sum is smaller, and Warnings is the
\* concatenation of the jobs' warnings.
C26_CountersAreSumsOverJobs ==
    (fn \in {"toCronJob", "toCronJobDetail"} /\ fnPc = "returned") =>
        /\ \A counter \in {"Current", "Running", "Pending", "Failed", "Succeeded"} :
              AggregatedInfo[counter] = SumOfCounter(fnArgs.jobs, counter)
        /\ AggregatedInfo.Desired =
              IF SumOfCounter(fnArgs.jobs, "Desired") < Len(fnRet.PodList.Pods)
                THEN Len(fnRet.PodList.Pods)
                ELSE SumOfCounter(fnArgs.jobs, "Desired")
        /\ AggregatedInfo.Warnings = AllWarnings(fnArgs.jobs)

\* C27: toCronJob and toCronJobDetail both list the pods of every matched job,
\* in job order, and TotalItems is the length of that list.
C27_ListAndDetailAgreeOnPods ==
    (fn \in {"toCronJob", "toCronJobDetail"} /\ fnPc = "returned") =>
        /\ fnRet.PodList.Pods = AllPods(fnArgs.jobs)
        /\ fnRet.PodList.ListMeta.TotalItems = Len(AllPods(fnArgs.jobs))

\* ---- the three pod classifiers side by side

StatusIgnoresWarnings(pod, warnings) ==
    IF pod.Phase = "Failed" THEN "failed"
    ELSE IF pod.Phase = "Succeeded" THEN "success"
    ELSE IF /\ ConditionFlag(pod.Conditions, "Initialized", FALSE)
            /\ ConditionFlag(pod.Conditions, "Ready", FALSE) THEN "success"
    ELSE "pending"

\* pod.getPodStatusStatus
getPodStatusStatus(pod, warnings) ==
    IF pod.Phase = "Failed" THEN "failed"
    ELSE IF pod.Phase = "Succeeded" THEN "success"
    ELSE IF /\ ConditionFlag(pod.Conditions, "Initialized", FALSE)
            /\ ConditionFlag(pod.Conditions, "Ready", FALSE) THEN "success"
    ELSE IF Len(warnings) > 0 THEN "failed"
    ELSE "pending"

\* The three classifiers called with the same pod and warnings.
CallClassifiers ==
    /\ fn = "classifiers"
    /\ fnPc = "called"
    /\ fnRet' = [getPodPhaseStatus  |-> getPodPhaseStatus(fnArgs.pod, fnArgs.warnings),
                 GetPodPhaseStatus  |-> GetPodPhaseStatus(fnArgs.pod, fnArgs.warnings),
                 getPodStatusStatus |-> getPodStatusStatus(fnArgs.pod, fnArgs.warnings)]
    /\ fnPc' = "returned"
    /\ UNCHANGED <<fn, fnArgs>>
    /\ UNCHANGED outsideCall

\* C28: for the same pod and warnings, common.getPodPhaseStatus and
\* pod.GetPodPhaseStatus return the same phase, and pod.getPodStatusStatus
\* returns "failed" exactly when that phase is Failed, "success" exactly when it
\* is Succeeded or Running, and "pending" exactly when it is Pending.
C28_ClassifiersAgree ==
    (fn = "classifiers" /\ fnPc = "returned") =>
        /\ fnRet.getPodPhaseStatus = fnRet.GetPodPhaseStatus
        /\ fnRet.getPodStatusStatus = "failed" <=> fnRet.GetPodPhaseStatus = "Failed"
        /\ fnRet.getPodStatusStatus = "success"
              <=> fnRet.GetPodPhaseStatus \in {"Succeeded", "Running"}
        /\ fnRet.getPodStatusStatus = "pending" <=> fnRet.GetPodPhaseStatus = "Pending"

\* A pod of phase Unknown that is initialized but not ready, with a warning: all
\* three classifiers call it failed.
C28_Witness ==
    /\ fn = "classifiers"
    /\ fnPc = "returned"
    /\ fnArgs.pod.Phase = "Unknown"
    /\ HasTrueCondition(fnArgs.pod, "Initialized")
    /\ ~HasTrueCondition(fnArgs.pod, "Ready")
    /\ fnArgs.warnings # <<>>
    /\ fnRet = [getPodPhaseStatus |-> "Failed", GetPodPhaseStatus |-> "Failed",
                getPodStatusStatus |-> "failed"]

\* ---- one call of one of the functions above

Functions ==
    {"FilterNamespacedPodsBySelector", "getPodPhaseStatus", "GetPodPhaseStatus",
     "FilterJobByAnnotation", "FilterJobByAnnotationc", "FromCells(ToCells)", "Sort",
     "Select", "getThirdPartyResourceList", "parsePaginationPathParameter",
     "xsrfValidation", "GetPodEventInfo", "GetPodInfo",
     "DataPointsFromMetricJSONFormat", "toCronJob", "toCronJobDetail",
     "classifiers", "mapUrlToResource"}

\* The arguments a function can be called with.
ArgsOf(f) ==
    CASE f = "FilterNamespacedPodsBySelector" ->
           [pods : CandidateSeqs, namespace : Namespaces, resourceSelector : {Nil} \cup LabelMaps]
      [] f \in {"getPodPhaseStatus", "GetPodPhaseStatus", "classifiers"} ->
           [pod : [Phase : PodPhases, Conditions : ConditionSeqs], warnings : WarningSeqs]
      [] f \in {"FilterJobByAnnotation", "FilterJobByAnnotationc"} ->
           [cronJob : [Name : CronJobNames, Namespace : Namespaces], jobs : JobSeqs]
      [] f = "FromCells(ToCells)" ->
           [kind : CellKinds, std : ResourceSlices]
      [] f = "Sort" ->
           [kind : CellKinds, std : ResourceLists, sortBy : SortQueries]
      [] f = "Select" ->
           [std : ResourceLists, dsQuery : SelectQueries]
      [] f = "getThirdPartyResourceList" ->
           [thirdPartyResources : ResourceSlices]
      [] f = "parsePaginationPathParameter" ->
           [itemsPerPage : PageParameters, page : PageParameters]
      [] f = "mapUrlToResource" -> [url : UrlPaths]
      [] f = "xsrfValidation" ->
           [Method : Methods, SelectedRoutePath : RoutePaths, token : Tokens]
      [] f \in {"GetPodEventInfo", "GetPodInfo"} ->
           [current : 0..1, desired : 0..1, pods : GroupLists, eve : WarningSeqs]
      [] f = "DataPointsFromMetricJSONFormat" -> MetricResults
      [] f \in {"toCronJob", "toCronJobDetail"} -> [jobs : MatchedJobLists]

CallInit ==
    /\ fn \in Functions
    /\ fnArgs \in ArgsOf(fn)
    /\ fnPc = "called"
    /\ fnRet = NoRet
    /\ FanIdle
    /\ ListIdle
    /\ CreateIdle
    /\ SelIdle
    /\ DetIdle
    /\ CacheIdle

CallNext ==
    \/ CallFilterNamespacedPodsBySelector
    \/ CallgetPodPhaseStatus
    \/ CallGetPodPhaseStatus
    \/ CallFilterJobByAnnotation
    \/ CallFilterJobByAnnotationc
    \/ CallCellRoundTrip
    \/ CallSort
    \/ CallSelect
    \/ CallgetThirdPartyResourceList
    \/ CallparsePaginationPathParameter
    \/ CallxsrfValidation
    \/ CallGetPodEventInfo
    \/ CallGetPodInfo
    \/ CallDataPointsFromMetricJSONFormat
    \/ CalltoCronJob
    \/ CalltoCronJobDetail
    \/ CallClassifiers
    \/ CallmapUrlToResource

CallSpec == CallInit /\ [][CallNext]_vars

-----------------------------------------------------------------------------
(* GetDeploymentDetail                                                      *)

\* The requests the cluster API receives are logged by name: "get deployment",
\* "list replicasets", "list pods", "list events", "list horizontalpodautoscalers"
\* and "list old replicasets".

DetInit ==
    /\ dNs \in Namespaces
    /\ dSel \in LabelMaps
    /\ dCluster \in {c \in SUBSET PodUniverse : Cardinality(c) <= MaxPods}
    /\ dpc = [main |-> "get", rs |-> "idle", pod |-> "idle"]
    /\ dChan = [ReplicaSetList |-> <<>>, PodList |-> <<>>]
    /\ apiLog = <<>>
    /\ dRawPods = Unread
    /\ dPodList = Unread
    /\ dret = NoRet
    /\ FanIdle
    /\ ListIdle
    /\ CreateIdle
    /\ SelIdle
    /\ CallIdle
    /\ CacheIdle

\* return nil, err
DetFail(what) ==
    /\ dpc' = [dpc EXCEPT !.main = "returned"]
    /\ dret' = [detail |-> Nil, err |-> [error |-> what]]

\* pod.CreatePodList(pods, []api.Event{}, dsQuery, heapsterClient) under the
\* default query: every pod, in order, with the total.
CreatePodList(pods) == [ListMeta |-> [TotalItems |-> Len(pods)], Pods |-> pods]

\* deployment, err := client.ExtensionsV1beta1().Deployments(namespace).Get(...)
\* if err != nil { return nil, err }
DetGetDeployment ==
    /\ dpc.main = "get"
    /\ apiLog' = Append(apiLog, "get deployment")
    /\ \/ DetFail("get")
       \/ /\ dpc' = [dpc EXCEPT !.main = "channels"]
          /\ UNCHANGED dret
    /\ UNCHANGED <<dNs, dSel, dCluster, dChan, dRawPods, dPodList>>
    /\ UNCHANGED outsideDet

\* selector, err := metaV1.LabelSelectorAsSelector(deployment.Spec.Selector);
\* channels := &common.ResourceChannels{ReplicaSetList: ..., PodList: ...}: both
\* list goroutines are started.
DetStartChannels ==
    /\ dpc.main = "channels"
    /\ dpc' = [main |-> "recvRs", rs |-> "fetch", pod |-> "fetch"]
    /\ UNCHANGED <<dNs, dSel, dCluster, dChan, apiLog, dRawPods, dPodList, dret>>
    /\ UNCHANGED outsideDet

\* The goroutine of GetReplicaSetListChannelWithOptions: one list request, its
\* result or error put into the channel.
DetFetchReplicaSets ==
    /\ dpc.rs = "fetch"
    /\ apiLog' = Append(apiLog, "list replicasets")
    /\ \E e \in {Nil, [error |-> "list"]} :
          dChan' = [dChan EXCEPT !.ReplicaSetList = <<[list |-> [Items |-> <<>>], err |-> e]>>]
    /\ dpc' = [dpc EXCEPT !.rs = "done"]
    /\ UNCHANGED <<dNs, dSel, dCluster, dRawPods, dPodList, dret>>
    /\ UNCHANGED outsideDet

\* The goroutine of GetPodListChannelWithOptions: one list request with the
\* label selector string, its result or error put into the channel.
DetFetchPods ==
    /\ dpc.pod = "fetch"
    /\ apiLog' = Append(apiLog, "list pods")
    /\ \/ dChan' = [dChan EXCEPT !.PodList =
                       <<[list |-> [Items |-> ServerListPods(dCluster, dNs, SelectorString(dSel))],
                          err |-> Nil]>>]
       \/ dChan' = [dChan EXCEPT !.PodList =
                       <<[list |-> [Items |-> <<>>], err |-> [error |-> "list"]]>>]
    /\ dpc' = [dpc EXCEPT !.pod = "done"]
    /\ UNCHANGED <<dNs, dSel, dCluster, dRawPods, dPodList, dret>>
    /\ UNCHANGED outsideDet

\* rawRs := <-channels.ReplicaSetList.List
\* if err := <-channels.ReplicaSetList.Error; err != nil { return nil, err }
DetRecvReplicaSets ==
    /\ dpc.main = "recvRs"
    /\ dChan.ReplicaSetList # <<>>
    /\ dChan' = [dChan EXCEPT !.ReplicaSetList = <<>>]
    /\ IF Head(dChan.ReplicaSetList).err # Nil
         THEN /\ dpc' = [dpc EXCEPT !.main = "returned"]
              /\ dret' = [detail |-> Nil, err |-> Head(dChan.ReplicaSetList).err]
         ELSE /\ dpc' = [dpc EXCEPT !.main = "recvPods"]
              /\ UNCHANGED dret
    /\ UNCHANGED <<dNs, dSel, dCluster, apiLog, dRawPods, dPodList>>
    /\ UNCHANGED outsideDet

\* rawPods := <-channels.PodList.List
\* if err := <-channels.PodList.Error; err != nil { return nil, err }
DetRecvPods ==
    /\ dpc.main = "recvPods"
    /\ dChan.PodList # <<>>
    /\ dChan' = [dChan EXCEPT !.PodList = <<>>]
    /\ dRawPods' = Head(dChan.PodList).list
    /\ IF Head(dChan.PodList).err # Nil
         THEN /\ dpc' = [dpc EXCEPT !.main = "returned"]
              /\ dret' = [detail |-> Nil, err |-> Head(dChan.PodList).err]
         ELSE /\ dpc' = [dpc EXCEPT !.main = "pods.get"]
              /\ UNCHANGED dret
    /\ UNCHANGED <<dNs, dSel, dCluster, apiLog, dPodList>>
    /\ UNCHANGED outsideDet

\* GetDeploymentPods, first half: the deployment is read from the cluster API,
\* the selector is built and the pod list goroutine is started.
DetPodsGetDeployment ==
    /\ dpc.main = "pods.get"
    /\ apiLog' = Append(apiLog, "get deployment")
    /\ \/ DetFail("get")
       \/ /\ dpc' = [dpc EXCEPT !.main = "pods.recv", !.pod = "fetch"]
          /\ UNCHANGED dret
    /\ UNCHANGED <<dNs, dSel, dCluster, dChan, dRawPods, dPodList>>
    /\ UNCHANGED outsideDet

\* GetDeploymentPods, second half: rawPods := <-channels.PodList.List; the error
\* is read; pods := common.FilterNamespacedPodsBySelector(rawPods.Items,
\* deployment.ObjectMeta.Namespace, deployment.Spec.Selector.MatchLabels);
\* podList := pod.CreatePodList(pods, ...).
DetPodsRecv ==
    /\ dpc.main = "pods.recv"
    /\ dChan.PodList # <<>>
    /\ dChan' = [dChan EXCEPT !.PodList = <<>>]
    /\ IF Head(dChan.PodList).err # Nil
         THEN /\ dpc' = [dpc EXCEPT !.main = "returned"]
              /\ dret' = [detail |-> Nil, err |-> Head(dChan.PodList).err]
              /\ UNCHANGED dPodList
         ELSE /\ dPodList' = CreatePodList(FilterNamespacedPodsBySelector(
                                 Head(dChan.PodList).list.Items, dNs, dSel))
              /\ dpc' = [dpc EXCEPT !.main = "events"]
              /\ UNCHANGED dret
    /\ UNCHANGED <<dNs, dSel, dCluster, apiLog, dRawPods>>
    /\ UNCHANGED outsideDet

\* eventList, err := GetDeploymentEvents(...); if err != nil { return nil, err }
DetEvents ==
    /\ dpc.main = "events"
    /\ apiLog' = Append(apiLog, "list events")
    /\ \/ DetFail("events")
       \/ /\ dpc' = [dpc EXCEPT !.main = "hpas"]
          /\ UNCHANGED dret
    /\ UNCHANGED <<dNs, dSel, dCluster, dChan, dRawPods, dPodList>>
    /\ UNCHANGED outsideDet

\* hpas, err := horizontalpodautoscaler.GetHorizontalPodAutoscalerListForResource(...)
\* if err != nil { return nil, err }
DetHorizontalPodAutoscalers ==
    /\ dpc.main = "hpas"
    /\ apiLog' = Append(apiLog, "list horizontalpodautoscalers")
    /\ \/ DetFail("hpas")
       \/ /\ dpc' = [dpc EXCEPT !.main = "oldRs"]
          /\ UNCHANGED dret
    /\ UNCHANGED <<dNs, dSel, dCluster, dChan, dRawPods, dPodList>>
    /\ UNCHANGED outsideDet

\* oldReplicaSetList, err := GetDeploymentOldReplicaSets(...)
\* if err != nil { return nil, err }
\* Whatever it requests is logged under a name of its own, so that it adds
\* nothing to the requests counted for the deployment and the pod list.
DetOldReplicaSets ==
    /\ dpc.main = "oldRs"
    /\ apiLog' = Append(apiLog, "list old replicasets")
    /\ \/ DetFail("oldRs")
       \/ /\ dpc' = [dpc EXCEPT !.main = "build"]
          /\ UNCHANGED dret
    /\ UNCHANGED <<dNs, dSel, dCluster, dChan, dRawPods, dPodList>>
    /\ UNCHANGED outsideDet

\* newRs, err := FindNewReplicaSet(deployment, rawRepSets); if err != nil
\* { return nil, err }; return &DeploymentDetail{PodList: *podList, Selector:
\* deployment.Spec.Selector.MatchLabels, ...}, nil
DetReturn ==
    /\ dpc.main = "build"
    /\ \/ DetFail("newRs")
       \/ /\ dpc' = [dpc EXCEPT !.main = "returned"]
          /\ dret' = [detail |-> [PodList |-> dPodList, Selector |-> dSel], err |-> Nil]
    /\ UNCHANGED <<dNs, dSel, dCluster, dChan, apiLog, dRawPods, dPodList>>
    /\ UNCHANGED outsideDet

DetNext ==
    \/ DetGetDeployment
    \/ DetStartChannels
    \/ DetFetchReplicaSets
    \/ DetFetchPods
    \/ DetRecvReplicaSets
    \/ DetRecvPods
    \/ DetPodsGetDeployment
    \/ DetPodsRecv
    \/ DetEvents
    \/ DetHorizontalPodAutoscalers
    \/ DetOldReplicaSets
    \/ DetReturn

DetailSpec == DetInit /\ [][DetNext]_vars

\* The number of requests of one kind issued so far.
Requests(request) ==
    LET is(e) == e = request
    IN  Len(SelectSeq(apiLog, is))

\* C19: a GetDeploymentDetail request that returns a detail has requested the
\* deployment object exactly once and the deployment's pod list exactly once.
C19_OneRequestPerKind ==
    (dpc.main = "returned" /\ dret.err = Nil)
        => (Requests("get deployment") = 1 /\ Requests("list pods") = 1)

-----------------------------------------------------------------------------
(* The LRU cache of the heapster client                                     *)

\* The goroutines calling the cache.
Goroutines == {"g1", "g2"}

CacheKeys == {"a", "b", "c"}

\* Largest size given to New.
MaxSize == 2

\* The methods of Cache.
CacheOps == {"Purge", "Add", "Get", "Contains", "Peek", "ContainsOrAdd", "Remove",
             "RemoveOldest", "Keys", "Len"}

\* The methods that take a key.
KeyedOps == {"Add", "Get", "Contains", "Peek", "ContainsOrAdd", "Remove"}

LockModeGetShared(op) ==
    IF op \in {"Get", "Contains", "Peek", "Keys", "Len"} THEN "RLock" ELSE "Lock"

\* The lock each method takes: c.lock.RLock() or c.lock.Lock().
LockMode(op) ==
    IF op \in {"Contains", "Peek", "Keys", "Len"} THEN "RLock" ELSE "Lock"

LruKeys(lru) == [n \in 1..Len(lru) |-> lru[n].key]

LruHas(lru, key) == \E n \in 1..Len(lru) : lru[n].key = key

LruWithout(lru, key) ==
    LET other(e) == e.key # key
    IN  SelectSeq(lru, other)

\* simplelru.LRU.Add: an existing key is updated and moved to the front; a new
\* one is pushed to the front and the oldest entry removed when the size is
\* exceeded.
LruAdd(lru, size, key, value) ==
    IF LruHas(lru, key) THEN <<[key |-> key, value |-> value]>> \o LruWithout(lru, key)
    ELSE IF Len(lru) + 1 > size
           THEN <<[key |-> key, value |-> value]>> \o SubSeq(lru, 1, Len(lru) - 1)
    ELSE <<[key |-> key, value |-> value]>> \o lru

\* simplelru.LRU.Get: a hit moves the entry to the front.
LruGet(lru, key) ==
    IF LruHas(lru, key)
      THEN LET hit(e) == e.key = key
           IN  SelectSeq(lru, hit) \o LruWithout(lru, key)
      ELSE lru

\* The underlying LRU after the method's calls on c.lru; value is what the
\* caller stores.
LruAfter(op, lru, size, key, value) ==
    CASE op = "Purge" -> <<>>
      [] op = "Add" -> LruAdd(lru, size, key, value)
      [] op = "Get" -> LruGet(lru, key)
      [] op = "ContainsOrAdd" ->
           IF LruHas(lru, key) THEN lru ELSE LruAdd(lru, size, key, value)
      [] op = "Remove" -> LruWithout(lru, key)
      [] op = "RemoveOldest" -> IF lru = <<>> THEN lru ELSE SubSeq(lru, 1, Len(lru) - 1)
      [] OTHER -> lru

\* What the boolean the method returns is: eviction for Add, found for the
\* lookups; FALSE for a method without one.
CacheRet(op, lru, size, key) ==
    CASE op = "Add" -> ~LruHas(lru, key) /\ Len(lru) + 1 > size
      [] op \in {"Get", "Contains", "Peek", "ContainsOrAdd"} -> LruHas(lru, key)
      [] OTHER -> FALSE

NotCalling == [pc |-> "idle", op |-> "none", key |-> "", ret |-> FALSE]

\* New(size): simplelru.NewLRU fails for a size that is not positive, so a
\* constructed cache has a positive size, an empty LRU and a free lock.
CacheInit ==
    /\ cSize \in 1..MaxSize
    /\ cLru = <<>>
    /\ cLock = [writer |-> "none", readers |-> {}]
    /\ cTh = [g \in Goroutines |-> NotCalling]
    /\ FanIdle
    /\ ListIdle
    /\ CreateIdle
    /\ SelIdle
    /\ CallIdle
    /\ DetIdle

\* A goroutine calls a method and its c.lock.Lock() or c.lock.RLock() returns:
\* Lock when nobody holds the lock, RLock when no writer holds it.
CacheLock(g) ==
    /\ cTh[g].pc = "idle"
    /\ \E op \in CacheOps : \E key \in IF op \in KeyedOps THEN CacheKeys ELSE {""} :
          /\ cLock.writer = "none"
          /\ IF LockMode(op) = "Lock"
               THEN /\ cLock.readers = {}
                    /\ cLock' = [cLock EXCEPT !.writer = g]
               ELSE cLock' = [cLock EXCEPT !.readers = @ \cup {g}]
          /\ cTh' = [cTh EXCEPT ![g] = [pc |-> "locked", op |-> op, key |-> key,
                                        ret |-> FALSE]]
    /\ UNCHANGED <<cSize, cLru>>
    /\ UNCHANGED outsideCache

\* The calls on c.lru between locking and unlocking.
CacheRun(g) ==
    /\ cTh[g].pc = "locked"
    /\ cLru' = LruAfter(cTh[g].op, cLru, cSize, cTh[g].key, g)
    /\ cTh' = [cTh EXCEPT ![g].pc = "ran",
                          ![g].ret = CacheRet(cTh[g].op, cLru, cSize, cTh[g].key)]
    /\ UNCHANGED <<cSize, cLock>>
    /\ UNCHANGED outsideCache

\* c.lock.Unlock() or c.lock.RUnlock(), called directly or deferred, and the return.
CacheUnlock(g) ==
    /\ cTh[g].pc = "ran"
    /\ cLock' = IF LockMode(cTh[g].op) = "Lock"
                  THEN [cLock EXCEPT !.writer = "none"]
                  ELSE [cLock EXCEPT !.readers = @ \ {g}]
    /\ cTh' = [cTh EXCEPT ![g] = NotCalling]
    /\ UNCHANGED <<cSize, cLru>>
    /\ UNCHANGED outsideCache

CacheNext ==
    \E g \in Goroutines :
        \/ CacheLock(g)
        \/ CacheRun(g)
        \/ CacheUnlock(g)

CacheSpec == CacheInit /\ [][CacheNext]_vars

\* The methods whose calls on c.lru change it (Get changes the order of use).
Mutates(op) == op \in {"Purge", "Add", "Get", "ContainsOrAdd", "Remove", "RemoveOldest"}

\* A goroutine about to change the LRU holds the exclusive lock and no other
\* goroutine is between locking and unlocking.
MutationIsExclusive ==
    \A g \in Goroutines :
        (cTh[g].pc = "locked" /\ Mutates(cTh[g].op)) =>
            /\ cLock = [writer |-> g, readers |-> {}]
            /\ \A h \in Goroutines \ {g} : cTh[h].pc = "idle"

\* A step that adds a new key to a full cache drops the least recently used
\* entry and nothing else.
EvictsLeastRecentlyUsed ==
    \A g \in Goroutines :
        (/\ cTh[g].pc = "locked"
         /\ cTh'[g].pc = "ran"
         /\ cTh[g].op \in {"Add", "ContainsOrAdd"}
         /\ ~LruHas(cLru, cTh[g].key)
         /\ Len(cLru) = cSize)
            => LruKeys(cLru') = <<cTh[g].key>> \o SubSeq(LruKeys(cLru), 1, cSize - 1)

\* C21: under every interleaving of the cache's methods, the LRU is changed only
\* by a goroutine that holds the exclusive lock alone, the cache never holds more
\* entries than its size, and a new key added to a full cache evicts the least
\* recently used entry.
C21_CacheIsLockedAndBounded ==
    /\ [](MutationIsExclusive /\ Len(cLru) <= cSize)
    /\ [][EvictsLeastRecentlyUsed]_vars

\* A full cache of size 2 to which a goroutine has just added a third key: the
\* call reports an eviction and the cache still holds two entries.
C21_Witness ==
    /\ cSize = 2
    /\ \E g \in Goroutines :
          /\ cTh[g] = [pc |-> "ran", op |-> "Add", key |-> "c", ret |-> TRUE]
          /\ Len(cLru) = 2
          /\ cLru[1] = [key |-> "c", value |-> g]

====
